---- MODULE Spec2Model ----
(***************************************************************************)
(* A model of the DXF isometric-drawing extractor: the spatial table       *)
(* reconstruction (extractTable and its post-processing), the field        *)
(* locators, the page bucketing and the worker pools that run the          *)
(* single-file pipeline over a batch of drawings.                          *)
(*                                                                         *)
(* Coordinates are float64 in the program.  Here they are fixed-point      *)
(* integers in hundredths of a drawing unit (Units(1) = 100), which is     *)
(* exact for every value the model uses.  Text is modelled by TLA+         *)
(* strings and the string functions of the program are computed character  *)
(* by character.                                                           *)
(***************************************************************************)
EXTENDS Integers, Sequences, FiniteSets, TLC

VARIABLES
    \* ---- one call of extractTable ----
    textEntities,   \* the fragment list handed to the call
    tableTitle,     \* the title searched for
    variant,        \* "bom": table_extraction.go, "weld": the copy in weld_detector.go
    pc,             \* "call" | "returned" | "panicked"
    header,         \* returned header
    paddedRows,     \* returned rows
    \* ---- processDXFFile: the consumers of one drawing's fragments ----
    fStream,        \* the list the record stream produced (never assigned again)
    fEntities,      \* the caller's slice, shared by the consumers
    fLocator,       \* "findPipeClass" | "findPipeClassFromEntities"
    fpc,            \* position in processDXFFile
    fResult,        \* the DXFResult under construction
    \* ---- page bucketing ----
    pgEntities,     \* the drawing's fragments
    pgPc,           \* "findTables" | "defineBoundaries" | "createBuckets" | "done"
    allTableYCoords,\* title Y values, as sorted by the code
    pages,          \* sequence of PageBoundary
    pageBuckets,    \* sequence of fragment lists, one per page
    pageTables,     \* table title -> the tables reconstructed from the buckets
    \* ---- worker pools ----
    bMode,          \* which batch function runs
    weldFlag,       \* the weldFlag argument of the caching pool
    bFiles,         \* the file list: sequence of file paths
    fileOutcome,    \* file path -> what the pool's single-file pipeline does on it
    bWorkers,       \* worker count
    nextJob,        \* index of the next file the sending loop sends
    jobs,           \* jobs channel content (sequence of file paths)
    jobsClosed,     \* close(jobs) done
    results,        \* results channel content
    wState,         \* per goroutine: its position
    wFile,          \* per goroutine: the file path it holds
    mainPc,         \* position of the calling goroutine
    allResults,     \* collected results
    fileCache,      \* merged cache: file path -> FileCache
    semaphore,      \* slots held in the semaphore channel (standalone weld detector)
    resultsClosed,  \* close(resultChan) done (standalone weld detector)
    crashed,        \* an unrecovered panic ended the process
    \* ---- one call of lengthsMatch, in both argument orders ----
    mLen1,          \* first length
    mLen2,          \* second length
    mPc,            \* "call" | "returned"
    mResult,        \* [ab |-> lengthsMatch(len1, len2), ba |-> lengthsMatch(len2, len1)]
    \* ---- removeDuplicateSymbols, run on a list and again on its result ----
    symbols,        \* the argument of the running call
    uPc,            \* "loop" | "returned"
    uPos,           \* number of symbols the loop has handled
    unique,         \* the list under construction, the result once returned
    uPass,          \* 1: the first call, 2: the call on the first call's result
    firstInput,     \* the argument of the first call
    \* ---- detectWeldSymbols ----
    dSegments,      \* the segment list
    dI, dJ,         \* the pair the loops are at
    dPc,            \* "pairs" | "returned"
    weldSymbols,    \* candidates appended so far
    dPairs,         \* the pairs that produced a candidate, in order
    dResult,        \* what detectWeldSymbols returns
    \* ---- parsePolylineSegmentsOptimized ----
    pContent,       \* the records of the file: group code and value
    pPos,           \* records read so far
    inPolyline,
    inVertex,
    vertices,
    currentX,
    currentY,
    currentLayer,
    segments,       \* segments kept so far
    pPc,            \* "scan" | "returned"
    \* ---- the row loop of processErectionMaterialsTable ----
    mtRows,         \* the dataRows argument
    mtVariant,      \* "bom" | "weld", as variant
    endIdx,         \* one past the last row the loop handles
    mtPos,          \* rows of dataRows[:endIdx] the loop has handled
    currentCategory,
    processedRows,
    mtPc,           \* "loop" | "returned" | "written"
    matCsv,         \* records of 0001_ERECTION_MATERIALS.csv, header first
    \* ---- validateAndCorrectCutLengthRow ----
    cutRow,         \* the row argument
    cutPc,          \* "call" | "returned"
    cutCorrected,   \* the returned row
    \* ---- SpatialAnalyzer.FindEntitiesNearText ----
    nEntities,      \* sa.entities
    searchText,
    maxDistance,
    referenceEntities,
    nRef,           \* reference entities the outer loop has handled
    seen,           \* indexes of the entities already in result
    nResult,        \* result
    nPc,            \* "call" | "loop" | "returned"
    \* ---- parseSequential ----
    sLines,         \* the trimmed lines of the file
    sPos,           \* lines scanned
    sEntities,      \* entities
    currentEntity,
    inTextEntity,
    expectingValue,
    lastGroupCode,
    sPc             \* "scan" | "returned"

tableVars == <<textEntities, tableTitle, variant, pc, header, paddedRows>>
fileVars  == <<fStream, fEntities, fLocator, fpc, fResult>>
pageVars  == <<pgEntities, pgPc, allTableYCoords, pages, pageBuckets, pageTables>>
batchVars == <<bMode, weldFlag, bFiles, fileOutcome, bWorkers, nextJob, jobs, jobsClosed, results,
               wState, wFile, mainPc, allResults, fileCache, semaphore, resultsClosed,
               crashed>>
matchVars == <<mLen1, mLen2, mPc, mResult>>
dedupVars == <<symbols, uPc, uPos, unique, uPass, firstInput>>
detectVars == <<dSegments, dI, dJ, dPc, weldSymbols, dPairs, dResult>>
parseVars == <<pContent, pPos, inPolyline, inVertex, vertices, currentX, currentY,
               currentLayer, segments, pPc>>
weldVars  == <<matchVars, dedupVars, detectVars, parseVars>>
materialsVars == <<mtRows, mtVariant, endIdx, mtPos, currentCategory, processedRows, mtPc,
                   matCsv>>
cutVars == <<cutRow, cutPc, cutCorrected>>
nearVars == <<nEntities, searchText, maxDistance, referenceEntities, nRef, seen, nResult, nPc>>
seqVars == <<sLines, sPos, sEntities, currentEntity, inTextEntity, expectingValue,
             lastGroupCode, sPc>>
vars == <<tableVars, fileVars, pageVars, batchVars, weldVars, materialsVars, cutVars, nearVars,
          seqVars>>

Units(n) == n * 100

\* The element of a singleton set.  TheOnly({F(x) : x \in {e}}) is F(e) with e
\* computed once and named x.
TheOnly(S) == CHOOSE x \in S : TRUE

-----------------------------------------------------------------------------
(* Strings                                                                 *)

LowerAlphabet == "abcdefghijklmnopqrstuvwxyz"
UpperAlphabet == "ABCDEFGHIJKLMNOPQRSTUVWXYZ"
Digits == "0123456789"

Ch(s, i) == SubSeq(s, i, i)
CharsOf(s) == {Ch(s, i) : i \in 1..Len(s)}

UpperOf == [c \in CharsOf(LowerAlphabet) |->
               Ch(UpperAlphabet, CHOOSE i \in 1..26 : Ch(LowerAlphabet, i) = c)]
LowerOf == [c \in CharsOf(UpperAlphabet) |->
               Ch(LowerAlphabet, CHOOSE i \in 1..26 : Ch(UpperAlphabet, i) = c)]

IsUpper(c) == c \in DOMAIN LowerOf
IsLower(c) == c \in DOMAIN UpperOf
IsDigit(c) == c \in CharsOf(Digits)
IsWordChar(c) == IsUpper(c) \/ IsLower(c) \/ IsDigit(c) \/ c = "_"
IsSpace(c) == c \in {" ", "\t", "\n", "\r"}

RECURSIVE ToUpper(_)
ToUpper(s) ==
    IF Len(s) = 0 THEN ""
    ELSE (IF IsLower(Ch(s, 1)) THEN UpperOf[Ch(s, 1)] ELSE Ch(s, 1))
         \o ToUpper(SubSeq(s, 2, Len(s)))

RECURSIVE ToLower(_)
ToLower(s) ==
    IF Len(s) = 0 THEN ""
    ELSE (IF IsUpper(Ch(s, 1)) THEN LowerOf[Ch(s, 1)] ELSE Ch(s, 1))
         \o ToLower(SubSeq(s, 2, Len(s)))

Contains(s, sub) ==
    \E i \in 0..(Len(s) - Len(sub)) : SubSeq(s, i + 1, i + Len(sub)) = sub

HasSuffix(s, suf) ==
    Len(s) >= Len(suf) /\ SubSeq(s, Len(s) - Len(suf) + 1, Len(s)) = suf

TrimSuffix(s, suf) ==
    IF HasSuffix(s, suf) THEN SubSeq(s, 1, Len(s) - Len(suf)) ELSE s

RECURSIVE TrimLeft(_)
TrimLeft(s) ==
    IF Len(s) > 0 /\ IsSpace(Ch(s, 1)) THEN TrimLeft(SubSeq(s, 2, Len(s))) ELSE s

RECURSIVE TrimRight(_)
TrimRight(s) ==
    IF Len(s) > 0 /\ IsSpace(Ch(s, Len(s))) THEN TrimRight(SubSeq(s, 1, Len(s) - 1))
    ELSE s

TrimSpace(s) == TrimRight(TrimLeft(s))

AllDigits(s) == Len(s) > 0 /\ \A i \in 1..Len(s) : IsDigit(Ch(s, i))

\* strings.Join(row, "")
RECURSIVE JoinCells(_)
JoinCells(row) == IF Len(row) = 0 THEN "" ELSE Head(row) \o JoinCells(Tail(row))

\* pieceNumberPattern ^<\d+>$ applied to the trimmed text
isPieceNumber(text) ==
    LET t == TrimSpace(text)
    IN  /\ Len(t) >= 3
        /\ Ch(t, 1) = "<"
        /\ Ch(t, Len(t)) = ">"
        /\ AllDigits(SubSeq(t, 2, Len(t) - 1))

\* The decimal literals strconv.ParseFloat accepts: an optional sign, digits
\* with an optional fraction ("12", "2.4", "1.", ".5").  Exponent, hex, Inf and
\* NaN spellings do not occur in the texts of the model.
Unsigned(t) == IF Len(t) > 0 /\ Ch(t, 1) \in {"+", "-"} THEN SubSeq(t, 2, Len(t)) ELSE t
DotAt(u) == IF \E i \in 1..Len(u) : Ch(u, i) = "."
            THEN CHOOSE i \in 1..Len(u) : Ch(u, i) = "." /\ \A j \in 1..(i - 1) : Ch(u, j) # "."
            ELSE 0
IsDecimal(t) ==
    LET u == Unsigned(t)
        d == DotAt(u)
        ip == IF d = 0 THEN u ELSE SubSeq(u, 1, d - 1)
        fp == IF d = 0 THEN "" ELSE SubSeq(u, d + 1, Len(u))
    IN  /\ Len(ip) + Len(fp) > 0
        /\ \A i \in 1..Len(ip) : IsDigit(Ch(ip, i))
        /\ \A i \in 1..Len(fp) : IsDigit(Ch(fp, i))

isNumber(text) == IsDecimal(TrimSpace(text))

DigitVal(c) == (CHOOSE i \in 1..10 : Ch(Digits, i) = c) - 1

RECURSIVE NatOf(_)
NatOf(s) == IF Len(s) = 0 THEN 0
            ELSE NatOf(SubSeq(s, 1, Len(s) - 1)) * 10 + DigitVal(Ch(s, Len(s)))

\* The value of a decimal literal in thousandths (fractions of the model have
\* at most three digits).
FloatMilli(t) ==
    LET u == Unsigned(t)
        d == DotAt(u)
        ip == IF d = 0 THEN u ELSE SubSeq(u, 1, d - 1)
        fp == IF d = 0 THEN "" ELSE SubSeq(u, d + 1, Len(u))
        f3 == SubSeq(fp \o "000", 1, 3)
        m == NatOf(ip) * 1000 + NatOf(f3)
    IN  IF Len(t) > 0 /\ Ch(t, 1) = "-" THEN 0 - m ELSE m

-----------------------------------------------------------------------------
(* extractTable: anchor, filter, row clustering                            *)

Entity(c, x, y) == [Content |-> c, X |-> x, Y |-> y]

MaxOf(a, b) == IF a > b THEN a ELSE b
AbsInt(n) == IF n < 0 THEN 0 - n ELSE n
CellOr(row, i) == IF i <= Len(row) THEN row[i] ELSE ""

TitleMatches(e, title) == Contains(ToLower(e.Content), ToLower(title))

\* a title search that falls back on the first fragment of the list
TitleIndexOrFirst(ents, title) ==
    IF \E i \in 1..Len(ents) : TitleMatches(ents[i], title)
    THEN CHOOSE i \in 1..Len(ents) :
            /\ TitleMatches(ents[i], title)
            /\ \A j \in 1..(i - 1) : ~TitleMatches(ents[j], title)
    ELSE IF Len(ents) > 0 THEN 1 ELSE 0

\* Index of the first fragment containing the title (the loop breaks there);
\* 0 when titleEntity stays nil.
TitleIndex(ents, title) ==
    IF \E i \in 1..Len(ents) : TitleMatches(ents[i], title)
    THEN CHOOSE i \in 1..Len(ents) :
            /\ TitleMatches(ents[i], title)
            /\ \A j \in 1..(i - 1) : ~TitleMatches(ents[j], title)
    ELSE 0

IsCutTitle(title) == ToLower(title) = "cut pipe length"
IsMaterialsTitle(title) == Contains(ToUpper(title), "ERECTION MATERIALS")

FilterEntities(ents, title) ==
    LET a == ents[TitleIndex(ents, title)]
        minX == IF IsCutTitle(title) THEN a.X - Units(50) ELSE a.X
        Keep(e) == ~(e.Y >= a.Y) /\ e.X >= minX
    IN  SelectSeq(ents, Keep)

\* Y cut off after its first decimal, in tenths
YKeyTruncated(y) == LET q == AbsInt(y) \div 10 IN IF y < 0 THEN 0 - q ELSE q

\* math.Round(entity.Y*10)/10, in tenths; math.Round rounds half away from zero
YKey(y) == LET q == (AbsInt(y) + 5) \div 10 IN IF y < 0 THEN 0 - q ELSE q

\* rowsDict: row key -> the cells appended in list order
RowsDict(filtered) ==
    [k \in {YKey(filtered[i].Y) : i \in 1..Len(filtered)} |->
        LET InRow(e) == YKey(e.Y) = k IN SelectSeq(filtered, InRow)]

RECURSIVE SortDescending(_)
SortDescending(S) ==
    IF S = {} THEN <<>>
    ELSE LET m == CHOOSE x \in S : \A y \in S : y <= x
         IN  <<m>> \o SortDescending(S \ {m})

\* sort.Slice(row.cells, X ascending).  sort.Slice is not stable; on the rows
\* of at most 6 cells that carry equal X here every Go release runs its plain
\* insertion sort, which moves a cell left only past cells with a larger X.
RECURSIVE InsertByX(_, _)
InsertByX(sorted, c) ==
    IF Len(sorted) = 0 THEN <<c>>
    ELSE IF c.X < sorted[Len(sorted)].X
         THEN Append(InsertByX(SubSeq(sorted, 1, Len(sorted) - 1), c), sorted[Len(sorted)])
         ELSE Append(sorted, c)

RECURSIVE SortCellsByX(_)
SortCellsByX(cells) ==
    IF Len(cells) = 0 THEN <<>>
    ELSE InsertByX(SortCellsByX(SubSeq(cells, 1, Len(cells) - 1)), cells[Len(cells)])

RowTexts(cells) == [i \in 1..Len(cells) |-> cells[i].Content]

\* the rows of rowsDict in the order of the keys ks
RowsInOrder(d, ks) == [i \in 1..Len(ks) |-> RowTexts(SortCellsByX(d[ks[i]]))]

\* tableRows: rows by descending key, the texts of each row by ascending X
TableRows(ents, title) ==
    TheOnly({RowsInOrder(d, SortDescending(DOMAIN d)) :
                d \in {RowsDict(FilterEntities(ents, title))}})

mergeHeaderForCutPipeLength(h1, h2) ==
    IF h1 # "" /\ h2 # "" THEN
        CASE h1 = "N.S." /\ h2 = "(MM)" -> "N.S. (MM)"
          [] h1 = "PIECE" /\ h2 = "NO" -> "PIECE NO"
          [] h1 = "CUT" /\ h2 = "LENGTH" -> "CUT LENGTH"
          [] h1 = "REMARKS" /\ h2 = "NO" -> "REMARKS"
          [] h1 = "PIECE" /\ h2 = "LENGTH" -> "PIECE NO"
          [] h1 = "CUT" /\ h2 = "(MM)" -> "CUT LENGTH"
          [] OTHER -> TrimSpace(h1 \o " " \o h2)
    ELSE IF h1 # "" /\ h2 = "" THEN
        CASE h1 = "PIECE" -> "PIECE NO"
          [] h1 = "CUT" -> "CUT LENGTH"
          [] h1 = "N.S." -> "N.S. (MM)"
          [] OTHER -> h1
    ELSE IF h2 # "" /\ h1 = "" THEN h2
    ELSE ""

MergeHeaderCell(title, h1, h2) ==
    IF IsCutTitle(title) THEN mergeHeaderForCutPipeLength(h1, h2)
    ELSE TrimSpace(h1 \o " " \o h2)

\* The header before the table-kind processing: the first two rows merged
\* column by column, or the only row.
MergedHeader(tableRows, title) ==
    IF Len(tableRows) >= 2
    THEN [i \in 1..MaxOf(Len(tableRows[1]), Len(tableRows[2])) |->
            MergeHeaderCell(title, CellOr(tableRows[1], i), CellOr(tableRows[2], i))]
    ELSE IF Len(tableRows) > 0 THEN tableRows[1] ELSE <<>>

RawDataRows(tableRows) ==
    IF Len(tableRows) >= 2 THEN SubSeq(tableRows, 3, Len(tableRows)) ELSE <<>>

-----------------------------------------------------------------------------
(* processErectionMaterialsTable                                           *)

HasTotalWeight(row) ==
    \E i \in 1..Len(row) : Contains(ToUpper(row[i]), "TOTAL WEIGHT")

\* an end index that keeps every row
EndIdxOfAllRows(dataRows) == Len(dataRows)

\* endIdx: one past the first row with a cell containing "TOTAL WEIGHT"
EndIdx(dataRows) ==
    IF \E i \in 1..Len(dataRows) : HasTotalWeight(dataRows[i])
    THEN CHOOSE i \in 1..Len(dataRows) :
            /\ HasTotalWeight(dataRows[i])
            /\ \A j \in 1..(i - 1) : ~HasTotalWeight(dataRows[j])
    ELSE Len(dataRows)

IsTotalRow(row) ==
    row[1] # "" /\ (row[1] = "TOTAL ERECTION WEIGHT" \/ row[1] = "TOTAL WEIGHT")

\* a classification that looks at row[2] and row[4] (0-indexed) instead
IsCategoryRowCols24(row) ==
    /\ row[1] # ""
    /\ \/ IsTotalRow(row)
       \/ ~(Len(row) > 2 /\ row[3] # "") /\ ~(Len(row) > 4 /\ row[5] # "")

\* isCategory: a total row, or a first cell with row[1] and row[3] (0-indexed)
\* empty or absent
IsCategoryRow(row) ==
    /\ row[1] # ""
    /\ \/ IsTotalRow(row)
       \/ ~(Len(row) > 1 /\ row[2] # "") /\ ~(Len(row) > 3 /\ row[4] # "")

TotalRow(row) == <<"", "", "", "", CellOr(row, 2), row[1]>>

IsValidWeight(col4) ==
    \/ col4 = "---"
    \/ col4 = ""
    \/ IsDecimal(col4) /\ FloatMilli(col4) >= 0

IsLikelyQty(col2) ==
    \/ HasSuffix(col2, "M")
    \/ /\ IsDecimal(col2)
       /\ FloatMilli(col2) > 0
       /\ FloatMilli(col2) < 10000
       /\ FloatMilli(col2) \notin {15000, 25000, 50000, 80000, 100000}
    \/ Contains(col2, ".") /\ IsDecimal(col2) /\ FloatMilli(col2) > 0

\* The missing-N.S. repair of table_extraction.go; the copy in
\* weld_detector.go has no repair.
FixMissingNS(newRow, v) ==
    IF /\ v = "bom"
       /\ Len(newRow) = 5
       /\ newRow[1] # ""
       /\ newRow[2] # ""
       /\ IsValidWeight(TrimSpace(newRow[5]))
       /\ IsLikelyQty(TrimSpace(newRow[3]))
    THEN <<newRow[1], newRow[2], "", newRow[3], newRow[4], newRow[5]>>
    ELSE newRow

StripQtyUnit(newRow) ==
    IF Len(newRow) > 3 /\ newRow[4] # ""
    THEN [newRow EXCEPT ![4] = TrimSuffix(newRow[4], "M")]
    ELSE newRow

RECURSIVE PadToSix(_)
PadToSix(newRow) == IF Len(newRow) < 6 THEN PadToSix(Append(newRow, "")) ELSE newRow

\* an ordinary row that keeps the cell it has at index 5
OrdinaryRowAsIs(row, category, v) == PadToSix(StripQtyUnit(FixMissingNS(row, v)))

\* An ordinary data row: repair, unit strip, pad to 6, category into column F
OrdinaryRow(row, category, v) ==
    [PadToSix(StripQtyUnit(FixMissingNS(row, v))) EXCEPT ![6] = category]

RECURSIVE CategoryLoop(_, _, _)
CategoryLoop(rows, category, v) ==
    IF Len(rows) = 0 THEN <<>>
    ELSE LET row == Head(rows)
         IN  IF Len(row) = 0 THEN CategoryLoop(Tail(rows), category, v)
             ELSE IF IsCategoryRow(row)
                  THEN IF IsTotalRow(row)
                       THEN <<TotalRow(row)>> \o CategoryLoop(Tail(rows), category, v)
                       ELSE CategoryLoop(Tail(rows), row[1], v)
                  ELSE <<OrdinaryRow(row, category, v)>>
                       \o CategoryLoop(Tail(rows), category, v)

processErectionMaterialsTable(dataRows, v) ==
    CategoryLoop(SubSeq(dataRows, 1, EndIdx(dataRows)), "", v)

-----------------------------------------------------------------------------
(* fixMissingNSColumns: the repair of the written materials file           *)

\* index of the last header cell that is name after trimming, 0 for none
NamedColumn(hdr, name) ==
    IF \E i \in 1..Len(hdr) : TrimSpace(hdr[i]) = name
    THEN CHOOSE i \in 1..Len(hdr) :
            /\ TrimSpace(hdr[i]) = name
            /\ \A j \in (i + 1)..Len(hdr) : TrimSpace(hdr[j]) # name
    ELSE 0

\* csv.Reader with TrimLeadingSpace: leading white space of a field is dropped
ReadRecord(rec) == [i \in 1..Len(rec) |-> TrimLeft(rec[i])]

\* ReadAll fails when a record has another number of fields than the first
FieldCountError(records) ==
    \E i \in 1..Len(records) : Len(records[i]) # Len(records[1])

\* for len(row) <= weightIdx { row = append(row, "") }
PadToWeight(row, weightIdx) == [i \in 1..MaxOf(Len(row), weightIdx) |-> CellOr(row, i)]

\* component row (PT NO has a value) with an empty WEIGHT
ShiftApplies(row, ptNoIdx, weightIdx) ==
    LET padded == PadToWeight(row, weightIdx)
    IN  TrimSpace(padded[ptNoIdx]) # "" /\ TrimSpace(padded[weightIdx]) = ""

\* N.S. -> QTY, QTY -> WEIGHT, N.S. cleared
ShiftMissingNS(row, ptNoIdx, nsIdx, qtyIdx, weightIdx) ==
    LET padded == PadToWeight(row, weightIdx)
    IN  IF ShiftApplies(row, ptNoIdx, weightIdx)
        THEN [padded EXCEPT ![weightIdx] = padded[qtyIdx],
                            ![qtyIdx] = padded[nsIdx],
                            ![nsIdx] = ""]
        ELSE padded

\* the QTY cell has an "M" suffix to remove
CleanApplies(row, qtyIdx) ==
    /\ Len(row) >= qtyIdx
    /\ TrimSpace(row[qtyIdx]) # ""
    /\ HasSuffix(ToUpper(TrimSpace(row[qtyIdx])), "M")

CleanQty(row, qtyIdx) ==
    IF CleanApplies(row, qtyIdx)
    THEN [row EXCEPT ![qtyIdx] = TrimSpace(TrimSuffix(ToUpper(TrimSpace(row[qtyIdx])), "M"))]
    ELSE row

\* the records of the file after fixMissingNSColumns; the file stays as
\* written when it cannot be read, when a column is missing, and when no row
\* changes
fixMissingNSColumns(written) ==
    IF Len(written) = 0 \/ FieldCountError(written) THEN written
    ELSE LET records == [i \in 1..Len(written) |-> ReadRecord(written[i])]
             hdr == records[1]
             ptNoIdx == NamedColumn(hdr, "PT NO")
             nsIdx == NamedColumn(hdr, "N.S.")
             qtyIdx == NamedColumn(hdr, "QTY")
             weightIdx == NamedColumn(hdr, "WEIGHT")
             shifted == [i \in 1..Len(records) |->
                           IF i = 1 THEN hdr
                           ELSE ShiftMissingNS(records[i], ptNoIdx, nsIdx, qtyIdx, weightIdx)]
             corrected == [i \in 1..Len(records) |->
                             IF i = 1 THEN hdr ELSE CleanQty(shifted[i], qtyIdx)]
             correctionCount ==
                 Cardinality({i \in 2..Len(records) :
                                 ShiftApplies(records[i], ptNoIdx, weightIdx)})
             qtyCleanCount ==
                 Cardinality({i \in 2..Len(records) : CleanApplies(shifted[i], qtyIdx)})
         IN  IF ptNoIdx = 0 \/ nsIdx = 0 \/ qtyIdx = 0 \/ weightIdx = 0 THEN written
             ELSE IF correctionCount > 0 \/ qtyCleanCount > 0 THEN corrected
             ELSE written

-----------------------------------------------------------------------------
(* validateAndCorrectCutLengthRow                                          *)

isTextRemark(text) ==
    LET t == TrimSpace(text)
    IN  t # "" /\ ~isPieceNumber(t) /\ ~isNumber(t)

\* indexes (1-based) of the cells that are piece numbers, ascending
RECURSIVE SortAscending(_)
SortAscending(S) ==
    IF S = {} THEN <<>>
    ELSE LET m == CHOOSE x \in S : \A y \in S : x <= y
         IN  <<m>> \o SortAscending(S \ {m})

PieceIndexes(row) == SortAscending({i \in 1..Len(row) : isPieceNumber(TrimSpace(row[i]))})

\* the trimmed non-empty cells between a piece and the next piece (or the end)
GroupCells(row, pieces, k) ==
    LET endPos == IF k + 1 <= Len(pieces) THEN pieces[k + 1] ELSE Len(row) + 1
        between == [i \in 1..(endPos - pieces[k] - 1) |-> TrimSpace(row[pieces[k] + i])]
        NonEmpty(c) == c # ""
    IN  SelectSeq(between, NonEmpty)

GroupNumbers(row, pieces, k) ==
    LET IsNum(c) == isNumber(c) IN SelectSeq(GroupCells(row, pieces, k), IsNum)

GroupRemarks(row, pieces, k) ==
    LET IsRem(c) == ~isNumber(c) /\ isTextRemark(c)
    IN  SelectSeq(GroupCells(row, pieces, k), IsRem)

\* the cells of a piece group one after the other, without a column of
\* their own for the remark
GroupColumnsPacked(row, pieces, k) ==
    LET UpTo(cells, n) == SubSeq(cells, 1, IF Len(cells) < n THEN Len(cells) ELSE n)
        packed == <<TrimSpace(row[pieces[k]])>>
                  \o UpTo(GroupNumbers(row, pieces, k), 2)
                  \o UpTo(GroupRemarks(row, pieces, k), 1)
    IN  [i \in 1..4 |-> CellOr(packed, i)]

\* the four output cells of piece group k
GroupColumns(row, pieces, k) ==
    <<TrimSpace(row[pieces[k]]),
      CellOr(GroupNumbers(row, pieces, k), 1),
      CellOr(GroupNumbers(row, pieces, k), 2),
      CellOr(GroupRemarks(row, pieces, k), 1)>>

EmptyGroup == <<"", "", "", "">>

CorrectCutLengthRow(row) ==
    LET pieces == PieceIndexes(row)
    IN  IF Len(row) = 0 THEN row
        ELSE IF Len(pieces) = 0 THEN [i \in 1..8 |-> CellOr(row, i)]
        ELSE GroupColumns(row, pieces, 1)
             \o (IF Len(pieces) >= 2 THEN GroupColumns(row, pieces, 2) ELSE EmptyGroup)

\* table_extraction.go corrects the row; weld_detector.go returns it as it is
validateAndCorrectCutLengthRow(row, v) ==
    IF v = "bom" THEN CorrectCutLengthRow(row) ELSE row

-----------------------------------------------------------------------------
(* extractTable: headers, table-kind processing, padding                   *)

\* "Insert CATEGORY at position 5": header[:5] needs cap(header) >= 5, and the
\* header slices are made with cap = len, so a header of 1..4 cells panics.
CategoryInsertPanics(hdr) == Len(hdr) > 0 /\ Len(hdr) < 5

InsertCategory(hdr) ==
    IF Len(hdr) > 0
    THEN SubSeq(hdr, 1, 5) \o <<"CATEGORY">> \o SubSeq(hdr, 6, Len(hdr))
    ELSE hdr

HasLessThan(row) == Contains(JoinCells(row), "<")
AllEmpty(row) == \A i \in 1..Len(row) : TrimSpace(row[i]) = ""

RECURSIVE UntilEmptyRow(_)
UntilEmptyRow(rows) ==
    IF Len(rows) = 0 \/ AllEmpty(Head(rows)) THEN <<>>
    ELSE <<Head(rows)>> \o UntilEmptyRow(Tail(rows))

CutRows(dataRows, title, v) ==
    LET kept == SelectSeq(dataRows, HasLessThan)
        corrected == IF IsCutTitle(title)
                     THEN [i \in 1..Len(kept) |-> validateAndCorrectCutLengthRow(kept[i], v)]
                     ELSE dataRows
    IN  IF Contains(ToUpper(title), "CUT PIPE LENGTH") THEN UntilEmptyRow(corrected)
        ELSE corrected

\* dataRows as they reach the padding loop, from tableRows
ProcessedRowsOf(tableRows, title, v) ==
    LET raw == RawDataRows(tableRows)
    IN  IF IsMaterialsTitle(title) THEN CutRows(processErectionMaterialsTable(raw, v), title, v)
        ELSE CutRows(raw, title, v)

ProcessedRows(ents, title, v) == ProcessedRowsOf(TableRows(ents, title), title, v)

\* the header returned, from the merged header h
FinalHeaderOf(h, title) == IF IsMaterialsTitle(title) THEN InsertCategory(h) ELSE h

FinalHeader(ents, title) == FinalHeaderOf(MergedHeader(TableRows(ents, title), title), title)

\* a padding loop that hands the row on as it is
PadRowKeepsLength(row, n) == row

\* "Pad all rows to header length": paddedRow has len(header) cells and takes
\* row[i] for i < len(row)
PadRow(row, n) == [i \in 1..n |-> CellOr(row, i)]

PadRows(dataRows, n) == [i \in 1..Len(dataRows) |-> PadRow(dataRows[i], n)]

\* extractTable from the header merge on
TableOf(tableRows, title, v) ==
    TheOnly({
        IF IsMaterialsTitle(title) /\ CategoryInsertPanics(h)
        THEN [panicked |-> TRUE, header |-> <<>>, rows |-> <<>>]
        ELSE TheOnly({[panicked |-> FALSE,
                       header |-> FinalHeaderOf(h, title),
                       rows |-> PadRows(dataRows, Len(FinalHeaderOf(h, title)))] :
                         dataRows \in {ProcessedRowsOf(tableRows, title, v)}}) :
            h \in {MergedHeader(tableRows, title)}})

\* The outcome of extractTable(textEntities, tableTitle)
extractTable(ents, title, v) ==
    IF TitleIndex(ents, title) = 0
    THEN [panicked |-> FALSE, header |-> <<>>, rows |-> <<>>]
    ELSE TheOnly({TableOf(tableRows, title, v) : tableRows \in {TableRows(ents, title)}})

-----------------------------------------------------------------------------
(* Drawings: the fragment lists the record stream hands to the consumers   *)

MaxDrop == 2

\* A materials table as the drawing template lays it out: two header lines,
\* a category line, component lines, the total line, and a line below it.
MaterialsDrawing ==
    << Entity("ERECTION MATERIALS", Units(0), Units(100)),
       Entity("PT", Units(0), Units(95)),
       Entity("COMPONENT DESCRIPTION", Units(10), Units(95)),
       Entity("N.S.", Units(40), Units(95)),
       Entity("QTY", Units(50), Units(95)),
       Entity("WEIGHT", Units(60), Units(95)),
       Entity("NO", Units(0), Units(94)),
       Entity("(MM)", Units(40), Units(94)),
       Entity("PIPE", Units(0), Units(90)),
       Entity("A1", Units(0), Units(85)),
       Entity("DescA", Units(10), Units(85)),
       Entity("25", Units(40), Units(85)),
       Entity("2.4M", Units(50), Units(85)),
       Entity("1.5", Units(60), Units(85)),
       Entity("SEE NOTE", Units(70), Units(85)),
       Entity("REV B", Units(80), Units(85)),
       Entity("TOTAL WEIGHT", Units(0), Units(80)),
       Entity("9.9", Units(10), Units(80)),
       Entity("Z9", Units(0), Units(75)) >>

\* A cut-length table with one column group in its header and two pieces on
\* its data line.
CutLengthDrawing ==
    << Entity("CUT PIPE LENGTH", Units(100), Units(50)),
       Entity("PIECE", Units(60), Units(45)),
       Entity("CUT", Units(70), Units(45)),
       Entity("N.S.", Units(80), Units(45)),
       Entity("REMARKS", Units(90), Units(45)),
       Entity("NO", Units(60), Units(44)),
       Entity("LENGTH", Units(70), Units(44)),
       Entity("(MM)", Units(80), Units(44)),
       Entity("<5>", Units(60), Units(40)),
       Entity("120", Units(70), Units(40)),
       Entity("25", Units(80), Units(40)),
       Entity("<6>", Units(110), Units(40)),
       Entity("130", Units(120), Units(40)),
       Entity("FW", Units(140), Units(40)),
       Entity("NOTES", Units(60), Units(35)) >>

\* Two sheets stacked in one file: the materials title occurs twice.
TwoTitleDrawing ==
    << Entity("ERECTION MATERIALS", Units(0), Units(100)),
       Entity("PT", Units(0), Units(95)),
       Entity("DESCRIPTION", Units(10), Units(95)),
       Entity("N.S.", Units(20), Units(95)),
       Entity("QTY", Units(30), Units(95)),
       Entity("WEIGHT", Units(40), Units(95)),
       Entity("Erection Materials", Units(0), Units(60)),
       Entity("PT", Units(0), Units(55)) >>

\* Two header words placed at the same X on one line.
TiedDrawing ==
    << Entity("CUT PIPE LENGTH", Units(100), Units(50)),
       Entity("PIECE", Units(60), Units(45)),
       Entity("CUT", Units(60), Units(45)),
       Entity("<7>", Units(60), Units(40)),
       Entity("88", Units(70), Units(40)),
       Entity("<8>", Units(60), Units(35)) >>

\* Text lines that are not exactly level: two header words at Y 45.04 and
\* 45.06, and a data line with fragments at Y 40.02, 40.04 and 39.96.
UnevenDrawing ==
    << Entity("CUT PIPE LENGTH", Units(100), Units(50)),
       Entity("PIECE", Units(60), Units(45) + 4),
       Entity("CUT", Units(70), Units(45) + 6),
       Entity("<5>", Units(60), Units(40) + 2),
       Entity("120", Units(70), Units(40) + 4),
       Entity("25", Units(80), Units(40) - 4) >>

TableDrawings ==
    {MaterialsDrawing, CutLengthDrawing, TwoTitleDrawing, TiedDrawing, UnevenDrawing}

RECURSIVE DropSets(_, _)
DropSets(n, k) ==
    IF k = 0 THEN {{}}
    ELSE LET prev == DropSets(n, k - 1)
         IN  prev \cup {S \cup {i} : S \in prev, i \in 1..n}

Without(list, dropped) ==
    LET Kept(i) == i \notin dropped
        idx == SelectSeq([i \in 1..Len(list) |-> i], Kept)
    IN  [i \in 1..Len(idx) |-> list[idx[i]]]

\* every list obtained from a drawing by leaving out at most MaxDrop fragments
Variations(drawing) == {Without(drawing, D) : D \in DropSets(Len(drawing), MaxDrop)}

FragmentLists == UNION {Variations(d) : d \in TableDrawings}

TableTitles == {"ERECTION MATERIALS", "CUT PIPE LENGTH"}
Variants == {"bom", "weld"}

-----------------------------------------------------------------------------
(* Idle values of the parts a specification does not run                   *)

TableIdle ==
    /\ textEntities = <<>> /\ tableTitle = "" /\ variant = "bom"
    /\ pc = "idle" /\ header = <<>> /\ paddedRows = <<>>

FileIdle ==
    /\ fStream = <<>> /\ fEntities = <<>> /\ fLocator = "" /\ fpc = "idle"
    /\ fResult = <<>>

PageIdle ==
    /\ pgEntities = <<>> /\ pgPc = "idle" /\ allTableYCoords = <<>>
    /\ pages = <<>> /\ pageBuckets = <<>> /\ pageTables = <<>>

BatchIdle ==
    /\ bMode = "" /\ weldFlag = FALSE /\ bFiles = <<>> /\ fileOutcome = <<>>
    /\ bWorkers = 0
    /\ nextJob = 0 /\ jobs = <<>>
    /\ jobsClosed = FALSE /\ results = <<>> /\ wState = <<>> /\ wFile = <<>>
    /\ mainPc = "idle" /\ allResults = <<>> /\ fileCache = <<>> /\ semaphore = 0
    /\ resultsClosed = FALSE /\ crashed = FALSE

MatchIdle == mLen1 = 0 /\ mLen2 = 0 /\ mPc = "idle" /\ mResult = <<>>

DedupIdle ==
    /\ symbols = <<>> /\ uPc = "idle" /\ uPos = 0 /\ unique = <<>> /\ uPass = 0
    /\ firstInput = <<>>

DetectIdle ==
    /\ dSegments = <<>> /\ dI = 0 /\ dJ = 0 /\ dPc = "idle" /\ weldSymbols = <<>>
    /\ dPairs = <<>> /\ dResult = <<>>

CutIdle == cutRow = <<>> /\ cutPc = "idle" /\ cutCorrected = <<>>

NearIdle ==
    /\ nEntities = <<>> /\ searchText = "" /\ maxDistance = 0
    /\ referenceEntities = <<>> /\ nRef = 0 /\ seen = {} /\ nResult = <<>> /\ nPc = "idle"

\* &TextEntity{}
EmptyTextEntity ==
    [Content |-> "", X |-> 0, Y |-> 0, Height |-> 0, EntityType |-> "", Layer |-> ""]

SeqIdle ==
    /\ sLines = <<>> /\ sPos = 0 /\ sEntities = <<>> /\ currentEntity = EmptyTextEntity
    /\ inTextEntity = FALSE /\ expectingValue = FALSE /\ lastGroupCode = "" /\ sPc = "idle"

MaterialsIdle ==
    /\ mtRows = <<>> /\ mtVariant = "" /\ endIdx = 0 /\ mtPos = 0 /\ currentCategory = ""
    /\ processedRows = <<>> /\ mtPc = "idle" /\ matCsv = <<>>

ParseIdle ==
    /\ pContent = <<>> /\ pPos = 0 /\ inPolyline = FALSE /\ inVertex = FALSE
    /\ vertices = <<>> /\ currentX = 0 /\ currentY = 0 /\ currentLayer = ""
    /\ segments = <<>> /\ pPc = "idle"

-----------------------------------------------------------------------------
(* Specification of one call of extractTable                               *)

Init ==
    /\ textEntities \in FragmentLists
    /\ tableTitle \in TableTitles
    /\ variant \in Variants
    /\ pc = "call"
    /\ header = <<>>
    /\ paddedRows = <<>>
    /\ FileIdle /\ PageIdle /\ BatchIdle
    /\ MatchIdle /\ DedupIdle /\ DetectIdle /\ ParseIdle /\ MaterialsIdle
    /\ CutIdle /\ NearIdle /\ SeqIdle

\* extractTable runs to its return statement
ExtractTableReturns ==
    /\ pc = "call"
    /\ ~extractTable(textEntities, tableTitle, variant).panicked
    /\ header' = extractTable(textEntities, tableTitle, variant).header
    /\ paddedRows' = extractTable(textEntities, tableTitle, variant).rows
    /\ pc' = "returned"
    /\ UNCHANGED <<textEntities, tableTitle, variant, fileVars, pageVars, batchVars,
                   weldVars, materialsVars, cutVars, nearVars, seqVars>>

\* extractTable panics at header[:5]; nothing is returned
ExtractTablePanics ==
    /\ pc = "call"
    /\ extractTable(textEntities, tableTitle, variant).panicked
    /\ pc' = "panicked"
    /\ UNCHANGED <<textEntities, tableTitle, variant, header, paddedRows,
                   fileVars, pageVars, batchVars, weldVars, materialsVars, cutVars, nearVars, seqVars>>

Next == ExtractTableReturns \/ ExtractTablePanics

Spec == Init /\ [][Next]_vars

-----------------------------------------------------------------------------
(* Claims about extractTable                                               *)

Swap(list, i, j) == [list EXCEPT ![i] = list[j], ![j] = list[i]]

\* the rows of the current call as they reach the padding loop
DataRowsBeforePadding == ProcessedRows(textEntities, tableTitle, variant)

\* C1: every data row extractTable returns has exactly len(header) cells.
C1_PaddingInvariant ==
    pc = "returned" =>
        \A i \in 1..Len(paddedRows) : Len(paddedRows[i]) = Len(header)

\* C1 witness: a returned table in which a row shorter than the header was padded.
C1_Witness ==
    /\ pc = "returned"
    /\ Len(paddedRows) > 0
    /\ \E i \in 1..Len(paddedRows) : Len(DataRowsBeforePadding[i]) < Len(header)

\* C2 (as claimed): no data row is truncated; every cell of a processed row is
\* still in the returned row and padding only appends empty strings.
C2_NeverTruncates ==
    pc = "returned" =>
        \A i \in 1..Len(paddedRows) :
            LET d == DataRowsBeforePadding[i]
            IN  /\ Len(paddedRows[i]) >= Len(d)
                /\ SubSeq(paddedRows[i], 1, Len(d)) = d
                /\ \A j \in (Len(d) + 1)..Len(paddedRows[i]) : paddedRows[i][j] = ""

\* C3 (as claimed): extractTable returns normally for every fragment list and
\* title; a materials header of 1 to 4 columns does not abort the run.
C3_ReturnsNormally == pc # "panicked"

\* C8 (as claimed): reordering the fragment list changes neither the header nor
\* the rows.  Exchanging two fragments is the permutation checked; every
\* permutation is a product of such exchanges.
C8_OrderIndependence ==
    pc = "returned" =>
        \A i \in 1..Len(textEntities) : \A j \in (i + 1)..Len(textEntities) :
            LET r == extractTable(Swap(textEntities, i, j), tableTitle, variant)
            IN  ~r.panicked /\ r.header = header /\ r.rows = paddedRows

\* no fragment of the list contains the title, whatever the case of the letters
TitleAbsent ==
    \A i \in 1..Len(textEntities) :
        ~Contains(ToUpper(textEntities[i].Content), ToUpper(tableTitle))

\* C12: when no fragment contains the table title, extractTable returns, with
\* an empty header and an empty row list.
C12_AbsentTitleEmptyTable ==
    (pc # "call" /\ TitleAbsent) =>
        pc = "returned" /\ header = <<>> /\ paddedRows = <<>>

\* extractTable has returned for a non-empty list without the title
C12_Witness ==
    pc = "returned" /\ TitleAbsent /\ Len(textEntities) >= 10

-----------------------------------------------------------------------------
(* Title block: drawing number and pipe class                              *)

IsWordAt(s, i) == i >= 1 /\ i <= Len(s) /\ IsWordChar(Ch(s, i))

MinOfSet(S) == CHOOSE x \in S : \A y \in S : x <= y

\* pipeClassPattern \b[A-Z]{4}\b matched at position i
PipeClassAt(s, i) ==
    /\ i + 3 <= Len(s)
    /\ \A k \in i..(i + 3) : IsUpper(Ch(s, k))
    /\ ~IsWordAt(s, i - 1)
    /\ ~IsWordAt(s, i + 4)

\* pipeClassPattern.FindString: the leftmost match, "" when there is none
FindPipeClassString(s) ==
    LET I == {i \in 1..Len(s) : PipeClassAt(s, i)}
    IN  IF I = {} THEN "" ELSE SubSeq(s, MinOfSet(I), MinOfSet(I) + 3)

\* kksPattern \b\d[A-Z]{3}\d{2}BR\d{3}\b matched at position i
KksAt(s, i) ==
    /\ i + 10 <= Len(s)
    /\ IsDigit(Ch(s, i))
    /\ \A k \in (i + 1)..(i + 3) : IsUpper(Ch(s, k))
    /\ \A k \in (i + 4)..(i + 5) : IsDigit(Ch(s, k))
    /\ SubSeq(s, i + 6, i + 7) = "BR"
    /\ \A k \in (i + 8)..(i + 10) : IsDigit(Ch(s, k))
    /\ ~IsWordAt(s, i - 1)
    /\ ~IsWordAt(s, i + 11)

FindKksString(s) ==
    LET I == {i \in 1..Len(s) : KksAt(s, i)}
    IN  IF I = {} THEN "" ELSE SubSeq(s, MinOfSet(I), MinOfSet(I) + 10)

\* strings.ReplaceAll(s, c, "") for a one-character c
RECURSIVE RemoveChar(_, _)
RemoveChar(s, c) ==
    IF Len(s) = 0 THEN ""
    ELSE (IF Ch(s, 1) = c THEN "" ELSE Ch(s, 1)) \o RemoveChar(SubSeq(s, 2, Len(s)), c)

\* index of the first fragment for which P holds, 0 when there is none
FirstIndex(ents, P(_)) ==
    IF \E i \in 1..Len(ents) : P(ents[i])
    THEN MinOfSet({i \in 1..Len(ents) : P(ents[i])})
    ELSE 0

\* The candidate at index 0 once the candidates are ordered by an ascending
\* key: both the insertion sort of sort.Slice (at most 6 candidates) and the
\* exchange loops move a candidate to the front only past a strictly larger
\* key, so it is the first candidate in list order holding the smallest key.
FirstSmallest(cands, Key(_)) ==
    cands[MinOfSet({i \in 1..Len(cands) :
                       \A j \in 1..Len(cands) : Key(cands[i]) <= Key(cands[j])})]

IsErectionTitle(e) == Contains(ToUpper(e.Content), "ERECTION MATERIALS")

KksCandidates(ents) ==
    LET a == FirstIndex(ents, IsErectionTitle)
        Keep(e) == /\ FindKksString(e.Content) # ""
                   /\ (a # 0 => e.X >= ents[a].X /\ e.Y <= ents[a].Y)
    IN  SelectSeq(ents, Keep)

AbsY(e) == AbsInt(e.Y)

findDrawingNoFromEntities(ents) ==
    LET cands == KksCandidates(ents)
    IN  IF Len(cands) > 0 THEN FindKksString(FirstSmallest(cands, AbsY).Content)
        ELSE ""

\* Fallback of findDrawingNo: after a fragment containing "Drawing-No.", the
\* first of the next four fragments lying to its right or below it
DrawingNoField(ents) ==
    LET n == Len(ents)
        Hit(i, j) == /\ Contains(ents[i].Content, "Drawing-No.")
                     /\ j > i /\ j < i + 5
                     /\ (ents[j].X > ents[i].X \/ ents[j].Y < ents[i].Y)
        hits == {p \in (1..n) \X (1..n) : Hit(p[1], p[2])}
    IN  IF hits = {} THEN ""
        ELSE LET p == CHOOSE p \in hits :
                         \A q \in hits : p[1] < q[1] \/ (p[1] = q[1] /\ p[2] <= q[2])
             IN  ents[p[2]].Content

findDrawingNo(ents) ==
    LET cands == KksCandidates(ents)
    IN  IF Len(cands) > 0 THEN FindKksString(FirstSmallest(cands, AbsY).Content)
        ELSE DrawingNoField(ents)

IsPipeClassLabel(e) ==
    LET textClean == ToLower(RemoveChar(RemoveChar(e.Content, " "), "\n"))
    IN  \/ Contains(textClean, "pipeclass")
        \/ Contains(textClean, "pipe_class")
        \/ (Contains(ToLower(e.Content), "pipe") /\ Contains(ToLower(e.Content), "class"))

HasPipeClass(e) == FindPipeClassString(TrimSpace(e.Content)) # ""

\* the 4-letter codes on the row of the label, to its right, less than 200 away
LabelCandidates(ents) ==
    LET l == ents[FirstIndex(ents, IsPipeClassLabel)]
        Near(e) == /\ AbsInt(e.Y - l.Y) < Units(20)
                   /\ e.X > l.X
                   /\ AbsInt(e.X - l.X) < Units(200)
                   /\ HasPipeClass(e)
    IN  IF FirstIndex(ents, IsPipeClassLabel) = 0 THEN <<>> ELSE SelectSeq(ents, Near)

IsDesignData(e) == Contains(ToUpper(e.Content), "DESIGN DATA")

\* the 4-letter codes less than 150 below the DESIGN DATA title
DesignDataCandidates(ents) ==
    LET d == ents[FirstIndex(ents, IsDesignData)]
        Below(e) == e.Y < d.Y /\ e.Y > d.Y - Units(150) /\ HasPipeClass(e)
    IN  IF FirstIndex(ents, IsDesignData) = 0 THEN <<>> ELSE SelectSeq(ents, Below)

IsBottom(e) == e.Y < Units(100)

\* the fallback reaches the bottom-half branch: no label candidate, no code in
\* the DESIGN DATA area, no fragment below Y = 100
UsesBottomHalf(ents) ==
    /\ Len(LabelCandidates(ents)) = 0
    /\ Len(DesignDataCandidates(ents)) = 0
    /\ Len(SelectSeq(ents, IsBottom)) = 0

\* sort.Slice(textEntities, Y ascending) on the caller's slice.  The drawings
\* given to the locators hold at most 6 fragments, where every Go release
\* runs its plain insertion sort.
RECURSIVE InsertByY(_, _)
InsertByY(sorted, e) ==
    IF Len(sorted) = 0 THEN <<e>>
    ELSE IF e.Y < sorted[Len(sorted)].Y
         THEN Append(InsertByY(SubSeq(sorted, 1, Len(sorted) - 1), e), sorted[Len(sorted)])
         ELSE Append(sorted, e)

RECURSIVE SortByY(_)
SortByY(ents) ==
    IF Len(ents) = 0 THEN <<>>
    ELSE InsertByY(SortByY(SubSeq(ents, 1, Len(ents) - 1)), ents[Len(ents)])

\* the exchange loops of findPipeClassFromEntities:
\* for i, for j > i: if entities[i].Y > entities[j].Y, exchange them
RECURSIVE ExchangeFrom(_, _, _)
ExchangeFrom(ents, i, j) ==
    IF j > Len(ents) THEN ents
    ELSE ExchangeFrom(IF ents[i].Y > ents[j].Y THEN Swap(ents, i, j) ELSE ents, i, j + 1)

RECURSIVE ExchangeSortByY(_, _)
ExchangeSortByY(ents, i) ==
    IF i >= Len(ents) THEN ents
    ELSE ExchangeSortByY(ExchangeFrom(ents, i, i + 1), i + 1)

EntityX(e) == e.X
LabelDistance(ents, e) == AbsInt(e.X - ents[FirstIndex(ents, IsPipeClassLabel)].X)

\* The last stage of both locators: among bottomEntities, the codes left of
\* X = 500, the leftmost first
CenterPipeClass(bottomEntities) ==
    LET Center(e) == e.X < Units(500) /\ HasPipeClass(e)
        cands == SelectSeq(bottomEntities, Center)
    IN  IF Len(cands) > 0
        THEN FindPipeClassString(TrimSpace(FirstSmallest(cands, EntityX).Content))
        ELSE ""

\* A locator call: the pipe class returned and the caller's slice after the
\* call.  sorted is the slice as the bottom-half branch leaves it.
LocatePipeClass(ents, sorted) ==
    LET Dist(e) == LabelDistance(ents, e)
    IN  IF Len(LabelCandidates(ents)) > 0
        THEN [value |-> FindPipeClassString(
                            TrimSpace(FirstSmallest(LabelCandidates(ents), Dist).Content)),
              entities |-> ents]
        ELSE IF Len(DesignDataCandidates(ents)) > 0
        THEN [value |-> FindPipeClassString(TrimSpace(DesignDataCandidates(ents)[1].Content)),
              entities |-> ents]
        ELSE IF Len(SelectSeq(ents, IsBottom)) > 0
        THEN [value |-> CenterPipeClass(SelectSeq(ents, IsBottom)), entities |-> ents]
        ELSE [value |-> CenterPipeClass(SubSeq(sorted, 1, Len(sorted) \div 2)),
              entities |-> sorted]

findPipeClass(ents) == LocatePipeClass(ents, SortByY(ents))

findPipeClassFromEntities(ents) == LocatePipeClass(ents, ExchangeSortByY(ents, 1))

\* extractPipeDescriptions: column B of the rows whose column F is "PIPE"
extractPipeDescriptions(matRows) ==
    LET IsPipe(row) == Len(row) >= 6 /\ row[6] = "PIPE" /\ row[2] # ""
        pipes == SelectSeq(matRows, IsPipe)
    IN  [i \in 1..Len(pipes) |-> pipes[i][2]]

\* strings.Join(descs, " | ")
RECURSIVE JoinDescriptions(_)
JoinDescriptions(descs) ==
    IF Len(descs) = 0 THEN ""
    ELSE IF Len(descs) = 1 THEN descs[1]
    ELSE descs[1] \o " | " \o JoinDescriptions(Tail(descs))

SingleRowHeader ==
    <<"PIECE NO", "CUT LENGTH", "N.S. (MM)", "REMARKS", "PIPE DESCRIPTION",
      "MULTIPLE PIPE DESCRIPTIONS", "Drawing-No.", "Pipe Class">>

\* the one or two pieces a cut-length row yields
PiecesOfRow(row, tail) ==
    LET Piece(k) == <<TrimSpace(row[k]), TrimSpace(row[k + 1]),
                      TrimSpace(row[k + 2]), TrimSpace(row[k + 3])>> \o tail
        first == IF Len(row) >= 4 /\ TrimSpace(row[1]) # "" THEN <<Piece(1)>> ELSE <<>>
        second == IF Len(row) >= 8 /\ TrimSpace(row[5]) # "" THEN <<Piece(5)>> ELSE <<>>
    IN  first \o second

RECURSIVE PiecesOfRows(_, _)
PiecesOfRows(rows, tail) ==
    IF Len(rows) = 0 THEN <<>>
    ELSE PiecesOfRow(Head(rows), tail) \o PiecesOfRows(Tail(rows), tail)

convertCutLengthToSingleRowFormat(rows, drawingNo, pipeClass, descs) ==
    LET pipeDesc == IF Len(descs) = 0 THEN "No pipe description found"
                    ELSE JoinDescriptions(descs)
        multipleDesc == IF Len(descs) > 1 THEN "YES" ELSE "NO"
    IN  [header |-> SingleRowHeader,
         rows |-> PiecesOfRows(rows, <<pipeDesc, multipleDesc, drawingNo, pipeClass>>)]

-----------------------------------------------------------------------------
(* processDXFFile and the locator calls of processWeldDetection            *)

EmptyResult ==
    [FilePath |-> "", Error |-> "", DrawingNo |-> "", PipeClass |-> "", MatHeader |-> <<>>,
     MatRows |-> <<>>, CutHeader |-> <<>>, CutRows |-> <<>>]

ParseError == [EmptyResult EXCEPT !.Error = "Failed to parse DXF file"]

AppendToRows(rows, extra) == [i \in 1..Len(rows) |-> rows[i] \o extra]

\* result.MatHeader and result.MatRows, set only when there are rows
WithMaterials(result, mat) ==
    IF Len(mat.rows) > 0
    THEN [result EXCEPT !.MatHeader = mat.header \o <<"Drawing-No.", "Pipe Class">>,
                        !.MatRows = AppendToRows(mat.rows, <<result.DrawingNo, result.PipeClass>>)]
    ELSE result

\* result.CutHeader and result.CutRows, set only when there are rows
WithCutLength(result, mat, cut) ==
    LET conv == convertCutLengthToSingleRowFormat(cut.rows, result.DrawingNo,
                    result.PipeClass, extractPipeDescriptions(mat.rows))
    IN  IF Len(cut.rows) > 0
        THEN [result EXCEPT !.CutHeader = conv.header, !.CutRows = conv.rows]
        ELSE result

\* processDXFFile from the extractTable calls on: named holds drawingNo and
\* pipeClass, ents is the slice as findPipeClass left it
ExtractTables(named, ents) ==
    TheOnly({
        IF mat.panicked THEN [panicked |-> TRUE, result |-> EmptyResult]
        ELSE TheOnly({
            IF cut.panicked THEN [panicked |-> TRUE, result |-> EmptyResult]
            ELSE [panicked |-> FALSE,
                  result |-> WithCutLength(WithMaterials(named, mat), mat, cut)] :
                cut \in {extractTable(ents, "CUT PIPE LENGTH", "bom")}}) :
            mat \in {extractTable(ents, "ERECTION MATERIALS", "bom")}})

\* processDXFFile after a successful ParseFile, on the record stream of the
\* file: whether the call panics, and the result it returns otherwise
ProcessFragments(stream) ==
    TheOnly({ExtractTables([EmptyResult EXCEPT !.DrawingNo = findDrawingNo(stream),
                                               !.PipeClass = located.value],
                           located.entities) :
                located \in {findPipeClass(stream)}})

\* Drawings of at most 6 fragments.  All fragments of the first four lie at
\* Y >= 100.
WideDrawing ==
    << Entity("ERECTION MATERIALS", Units(0), Units(400)),
       Entity("PT", Units(0), Units(395)),
       Entity("COMPONENT ABCD", Units(10), Units(395)),
       Entity("N.S.", Units(20), Units(395)),
       Entity("QTY", Units(30), Units(395)),
       Entity("WEIGHT", Units(40), Units(395)) >>

NarrowDrawing ==
    << Entity("ERECTION MATERIALS", Units(0), Units(400)),
       Entity("PT", Units(0), Units(395)),
       Entity("QTY", Units(30), Units(395)),
       Entity("WEIGHT", Units(40), Units(395)) >>

TitleBlockDrawing ==
    << Entity("DN 50 ABCD", Units(100), Units(300)),
       Entity("Drawing-No.", Units(200), Units(260)),
       Entity("1ABC12BR123", Units(300), Units(250)),
       Entity("WXYZ", Units(50), Units(200)),
       Entity("2DEF34BR567 REV", Units(350), Units(200)) >>

CutOnlyDrawing ==
    << Entity("CUT PIPE LENGTH", Units(100), Units(400)),
       Entity("PIECE", Units(60), Units(395)),
       Entity("CUT", Units(70), Units(395)),
       Entity("NO", Units(60), Units(390)),
       Entity("<1>", Units(60), Units(385)),
       Entity("<2>", Units(60), Units(380)) >>

LabelDrawing ==
    << Entity("Pipe class:", Units(100), Units(300)),
       Entity("EFGH", Units(180), Units(305)),
       Entity("ABCD", Units(150), Units(300)),
       Entity("IJKL", Units(400), Units(300)),
       Entity("1ABC12BR123", Units(300), Units(50)) >>

DesignDataDrawing ==
    << Entity("DESIGN DATA", Units(100), Units(300)),
       Entity("PN16 ABCD", Units(100), Units(250)),
       Entity("EFGH", Units(100), Units(100)),
       Entity("Drawing-No.", Units(200), Units(120)),
       Entity("D-77", Units(250), Units(120)) >>

LowDrawing ==
    << Entity("ABCD", Units(600), Units(50)),
       Entity("EFGH", Units(100), Units(60)),
       Entity("MNOP", Units(80), Units(150)),
       Entity("IJKL", Units(50), Units(60)) >>

\* a materials title with one drawing number to its left and one above it
AnchoredDrawing ==
    << Entity("ERECTION MATERIALS", Units(300), Units(200)),
       Entity("1ABC12BR123", Units(100), Units(150)),
       Entity("Drawing-No.", Units(200), Units(260)),
       Entity("D-77", Units(250), Units(260)),
       Entity("2DEF34BR567", Units(350), Units(300)) >>

FileDrawings ==
    {WideDrawing, NarrowDrawing, TitleBlockDrawing, CutOnlyDrawing, LabelDrawing,
     DesignDataDrawing, LowDrawing, AnchoredDrawing}

\* MaterialsDrawing and CutLengthDrawing have fragments below Y = 100 and are
\* given whole
FileStreams ==
    UNION {Variations(d) : d \in FileDrawings} \cup {MaterialsDrawing, CutLengthDrawing}

Locators == {"findPipeClass", "findPipeClassFromEntities"}

\* fLocator = "findPipeClass": a call of processDXFFile, from ParseFile on.
\* fLocator = "findPipeClassFromEntities": the two locator calls that
\* processWeldDetection makes on a cached fragment list.
\* fStream keeps the list as the record stream produced it; fEntities is the
\* slice the callers hold.  fResult.DrawingNo and fResult.PipeClass stand for
\* the locals drawingNo and pipeClass until the call returns.
FileInit ==
    /\ fStream \in FileStreams
    /\ fLocator \in Locators
    /\ fpc = IF fLocator = "findPipeClass" THEN "ParseFile" ELSE "findDrawingNo"
    /\ fEntities = IF fLocator = "findPipeClass" THEN <<>> ELSE fStream
    /\ fResult = EmptyResult
    /\ TableIdle /\ PageIdle /\ BatchIdle
    /\ MatchIdle /\ DedupIdle /\ DetectIdle /\ ParseIdle /\ MaterialsIdle
    /\ CutIdle /\ NearIdle /\ SeqIdle

FileFrame == UNCHANGED <<fStream, fLocator, tableVars, pageVars, batchVars, weldVars, materialsVars, cutVars, nearVars, seqVars>>

ParseFileFails ==
    /\ fpc = "ParseFile"
    /\ fResult' = ParseError
    /\ fpc' = "returned"
    /\ UNCHANGED fEntities
    /\ FileFrame

ParseFileReturns ==
    /\ fpc = "ParseFile"
    /\ fEntities' = fStream
    /\ fpc' = "findDrawingNo"
    /\ UNCHANGED fResult
    /\ FileFrame

FindDrawingNo ==
    /\ fpc = "findDrawingNo"
    /\ fResult' = [fResult EXCEPT !.DrawingNo =
                      IF fLocator = "findPipeClass" THEN findDrawingNo(fEntities)
                      ELSE findDrawingNoFromEntities(fEntities)]
    /\ fpc' = "findPipeClass"
    /\ UNCHANGED fEntities
    /\ FileFrame

FindPipeClass ==
    /\ fpc = "findPipeClass"
    /\ LET located == IF fLocator = "findPipeClass" THEN findPipeClass(fEntities)
                      ELSE findPipeClassFromEntities(fEntities)
       IN  /\ fEntities' = located.entities
           /\ fResult' = [fResult EXCEPT !.PipeClass = located.value]
    /\ fpc' = IF fLocator = "findPipeClass" THEN "extractMaterials" ELSE "returned"
    /\ FileFrame

ExtractMaterials ==
    /\ fpc = "extractMaterials"
    /\ LET mat == extractTable(fEntities, "ERECTION MATERIALS", "bom")
       IN  /\ ~mat.panicked
           /\ fResult' = WithMaterials(fResult, mat)
    /\ fpc' = "extractCutLength"
    /\ UNCHANGED fEntities
    /\ FileFrame

ExtractMaterialsPanics ==
    /\ fpc = "extractMaterials"
    /\ extractTable(fEntities, "ERECTION MATERIALS", "bom").panicked
    /\ fpc' = "panicked"
    /\ UNCHANGED <<fEntities, fResult>>
    /\ FileFrame

ExtractCutLength ==
    /\ fpc = "extractCutLength"
    /\ fResult' = WithCutLength(fResult,
                      extractTable(fEntities, "ERECTION MATERIALS", "bom"),
                      extractTable(fEntities, "CUT PIPE LENGTH", "bom"))
    /\ fpc' = "returned"
    /\ UNCHANGED fEntities
    /\ FileFrame

FileNext ==
    \/ ParseFileFails
    \/ ParseFileReturns
    \/ FindDrawingNo
    \/ FindPipeClass
    \/ ExtractMaterials
    \/ ExtractMaterialsPanics
    \/ ExtractCutLength

FileSpec == FileInit /\ [][FileNext]_vars

\* the caller holds a fragment list: the parse succeeded or the list was cached
HoldsFragments == fpc \notin {"idle", "ParseFile"} /\ fResult.Error = ""

\* C9 (as claimed): the fragment list the callers hold is, on every path of
\* findPipeClass and findPipeClassFromEntities, the list the record stream
\* produced, in content and in order.
C9_FragmentsReadOnly == HoldsFragments => fEntities = fStream

\* findDrawingNo has returned in processDXFFile
DrawingNoSet ==
    /\ fLocator = "findPipeClass"
    /\ fpc \notin {"idle", "ParseFile", "findDrawingNo"}
    /\ fResult.Error = ""

HasKks(e) == FindKksString(e.Content) # ""

\* the drawing has a materials title and no pattern match at or right of it
\* and at or below it
AnchorWithoutMatch(ents) ==
    /\ \E i \in 1..Len(ents) : IsErectionTitle(ents[i])
    /\ Len(KksCandidates(ents)) = 0

\* the pattern match of smallest |Y| among all fragments, "" when none matches
UnfilteredScan(ents) ==
    LET all == SelectSeq(ents, HasKks)
    IN  IF Len(all) = 0 THEN ""
        ELSE FindKksString(FirstSmallest(all, AbsY).Content)

\* C17 (as claimed): with a materials title but no pattern match at-or-right-of
\* and at-or-below it, findDrawingNo returns the pattern match of smallest |Y|
\* among all fragments, whatever their position; only when no fragment matches
\* does it return what the "Drawing-No." label scan finds, and it returns the
\* empty string only when all three steps find nothing.
C17_UnfilteredFallback ==
    (DrawingNoSet /\ AnchorWithoutMatch(fStream)) =>
        /\ fResult.DrawingNo =
              IF UnfilteredScan(fStream) # "" THEN UnfilteredScan(fStream)
              ELSE DrawingNoField(fStream)
        /\ fResult.DrawingNo = "" =>
              UnfilteredScan(fStream) = "" /\ DrawingNoField(fStream) = ""

\* what the code does in that case: the label scan follows at once
C17_LabelScanFollows ==
    (DrawingNoSet /\ AnchorWithoutMatch(fStream)) =>
        fResult.DrawingNo = DrawingNoField(fStream)

\* the step-by-step call returns what ProcessFragments computes in one piece
FileStepsAgree ==
    (fLocator = "findPipeClass" /\ fpc \in {"returned", "panicked"} /\ fResult.Error = "") =>
        /\ ProcessFragments(fStream).panicked = (fpc = "panicked")
        /\ fpc = "returned" => ProcessFragments(fStream).result = fResult

-----------------------------------------------------------------------------
(* Page bucketing of multi-sheet drawings                                  *)

MaxFragments == 4

PageYs == {Units(100), Units(200), Units(300)}

PageFragments ==
    {Entity("ERECTION MATERIALS", Units(0), y) : y \in PageYs}
        \cup {Entity("A1", Units(0), y) : y \in PageYs}

RECURSIVE ListsOf(_, _)
ListsOf(S, n) ==
    IF n = 0 THEN {<<>>}
    ELSE {Append(l, x) : l \in ListsOf(S, n - 1), x \in S}

PageLists == UNION {ListsOf(PageFragments, n) : n \in 2..MaxFragments}

\* One sheet with a materials table and a cut-length table whose title lies
\* at height cutY.
SheetDrawing(cutY) ==
    << Entity("ERECTION MATERIALS", Units(0), Units(100)),
       Entity("PT NO", Units(0), Units(95)),
       Entity("DESCRIPTION", Units(10), Units(95)),
       Entity("N.S.", Units(20), Units(95)),
       Entity("QTY", Units(30), Units(95)),
       Entity("WEIGHT", Units(40), Units(95)),
       Entity("CUT PIPE LENGTH", Units(100), cutY),
       Entity("PIECE", Units(60), cutY - Units(5)),
       Entity("<7>", Units(60), cutY - Units(10)) >>

\* the cut-length table below the materials title, and above it
SheetDrawings == {SheetDrawing(Units(50)), SheetDrawing(Units(150))}

SheetLists == UNION {Variations(d) : d \in SheetDrawings}

PageTitle == "ERECTION MATERIALS"

\* sort.Float64s: increasing order
RECURSIVE InsertFloat64(_, _)
InsertFloat64(sorted, y) ==
    IF Len(sorted) = 0 THEN <<y>>
    ELSE IF y < sorted[Len(sorted)]
         THEN Append(InsertFloat64(SubSeq(sorted, 1, Len(sorted) - 1), y), sorted[Len(sorted)])
         ELSE Append(sorted, y)

RECURSIVE SortFloat64s(_)
SortFloat64s(ys) ==
    IF Len(ys) = 0 THEN <<>>
    ELSE InsertFloat64(SortFloat64s(SubSeq(ys, 1, Len(ys) - 1)), ys[Len(ys)])

\* Step 1: the Y of every fragment containing the title, then sort.Float64s
TableYCoords(ents) ==
    LET IsTitle(e) == TitleMatches(e, PageTitle)
        titles == SelectSeq(ents, IsTitle)
    IN  SortFloat64s([i \in 1..Len(titles) |-> titles[i].Y])

\* Step 2: PageBoundary; EndY is <<>> for nil and <<y>> for a pointer to y
PageBoundaries(ys) ==
    [i \in 1..Len(ys) |->
        [PageNum |-> i, StartY |-> ys[i],
         EndY |-> IF i < Len(ys) THEN <<ys[i + 1]>> ELSE <<>>]]

\* Step 3: the bucket of one page
PageEntities(ents, page) ==
    LET InPage(e) == /\ e.Y <= page.StartY
                     /\ (page.EndY = <<>> \/ e.Y > page.EndY[1])
    IN  SelectSeq(ents, InPage)

\* Step 3, second half: the bucket of every page goes through the table
\* reconstruction, the headers and row lists of the pages are appended in
\* page order
NoPageTables == [panicked |-> FALSE, headers |-> <<>>, rows |-> <<>>]

AppendPageTable(acc, table) ==
    IF acc.panicked \/ table.panicked
    THEN [panicked |-> TRUE, headers |-> <<>>, rows |-> <<>>]
    ELSE [panicked |-> FALSE,
          headers |-> Append(acc.headers, table.header),
          rows |-> Append(acc.rows, table.rows)]

RECURSIVE extractTableFromPages(_, _)
extractTableFromPages(buckets, title) ==
    IF Len(buckets) = 0 THEN NoPageTables
    ELSE AppendPageTable(
             extractTableFromPages(SubSeq(buckets, 1, Len(buckets) - 1), title),
             extractTable(buckets[Len(buckets)], title, "bom"))

PageInit ==
    /\ pgEntities \in PageLists \cup SheetLists
    /\ pgPc = "findTables"
    /\ allTableYCoords = <<>>
    /\ pages = <<>>
    /\ pageBuckets = <<>>
    /\ pageTables = <<>>
    /\ TableIdle /\ FileIdle /\ BatchIdle
    /\ MatchIdle /\ DedupIdle /\ DetectIdle /\ ParseIdle /\ MaterialsIdle
    /\ CutIdle /\ NearIdle /\ SeqIdle

PageFrame == UNCHANGED <<pgEntities, tableVars, fileVars, batchVars, weldVars, materialsVars, cutVars, nearVars, seqVars>>

FindAllTables ==
    /\ pgPc = "findTables"
    /\ allTableYCoords' = TableYCoords(pgEntities)
    /\ pgPc' = "defineBoundaries"
    /\ UNCHANGED <<pages, pageBuckets, pageTables>>
    /\ PageFrame

DefinePageBoundaries ==
    /\ pgPc = "defineBoundaries"
    /\ pages' = PageBoundaries(allTableYCoords)
    /\ pgPc' = "createBuckets"
    /\ UNCHANGED <<allTableYCoords, pageBuckets, pageTables>>
    /\ PageFrame

\* one pass of the loop over pages
CreateEntityBucket ==
    /\ pgPc = "createBuckets"
    /\ Len(pageBuckets) < Len(pages)
    /\ pageBuckets' = Append(pageBuckets, PageEntities(pgEntities, pages[Len(pageBuckets) + 1]))
    /\ UNCHANGED <<pgPc, allTableYCoords, pages, pageTables>>
    /\ PageFrame

BucketsDone ==
    /\ pgPc = "createBuckets"
    /\ Len(pageBuckets) = Len(pages)
    /\ pgPc' = "done"
    /\ UNCHANGED <<allTableYCoords, pages, pageBuckets, pageTables>>
    /\ PageFrame

\* the buckets are reconstructed for the materials and the cut-length title
ReconstructPages ==
    /\ pgPc = "done"
    /\ pageTables' = [t \in TableTitles |-> extractTableFromPages(pageBuckets, t)]
    /\ pgPc' = IF \E t \in TableTitles : pageTables'[t].panicked
               THEN "panicked" ELSE "reconstructed"
    /\ UNCHANGED <<allTableYCoords, pages, pageBuckets>>
    /\ PageFrame

PageNext ==
    \/ FindAllTables
    \/ DefinePageBoundaries
    \/ CreateEntityBucket
    \/ BucketsDone
    \/ ReconstructPages

PageSpec == PageInit /\ [][PageNext]_vars

\* how often fragment e occurs in list
CountIn(list, e) == Cardinality({i \in 1..Len(list) : list[i] = e})

RECURSIVE CountInBuckets(_, _)
CountInBuckets(buckets, e) ==
    IF Len(buckets) = 0 THEN 0
    ELSE CountIn(Head(buckets), e) + CountInBuckets(Tail(buckets), e)

Reverse(list) == [i \in 1..Len(list) |-> list[Len(list) + 1 - i]]

\* C10 (as claimed): in a drawing with two or more title fragments every
\* fragment lies in exactly one page bucket, and page i holds the fragments
\* with boundary[i+1] < y <= boundary[i] over the title Y values in descending
\* order.
C10_PagePartition ==
    (pgPc = "done" /\ Len(allTableYCoords) >= 2) =>
        LET boundary == Reverse(allTableYCoords)
            Holds(i, e) == /\ e.Y <= boundary[i]
                           /\ (i < Len(boundary) => e.Y > boundary[i + 1])
        IN  /\ \A k \in 1..Len(pgEntities) :
                  CountInBuckets(pageBuckets, pgEntities[k]) = CountIn(pgEntities, pgEntities[k])
            /\ Len(pageBuckets) = Len(boundary)
            /\ \A i \in 1..Len(boundary) :
                  LET OnPage(e) == Holds(i, e) IN pageBuckets[i] = SelectSeq(pgEntities, OnPage)

\* the single-page path: extractTable on the whole fragment list
DirectTables(ents, title) ==
    AppendPageTable(NoPageTables, extractTable(ents, title, "bom"))

OneMaterialsTitle == Len(allTableYCoords) = 1

\* C11: for a drawing with exactly one fragment matching the materials title,
\* the tables reconstructed from its one page bucket, for the materials and
\* for the cut-length title, are the tables extractTable returns on the whole
\* fragment list.
C11_OnePageSameAsDirect ==
    OneMaterialsTitle =>
        /\ pgPc = "reconstructed" =>
              \A t \in TableTitles : pageTables[t] = DirectTables(pgEntities, t)
        /\ pgPc = "panicked" =>
              \E t \in TableTitles : DirectTables(pgEntities, t).panicked

-----------------------------------------------------------------------------
(* The files of a batch and the single-file pipelines the pools run        *)

MaxFiles == 2
MaxWorkers == 2

\* The files on disk: a complete drawing, one whose materials header has
\* three columns, and a path that cannot be opened.
Paths == {"a.dxf", "n.dxf", "x.dxf"}

Readable(filepath) == filepath # "x.dxf"

\* the record stream of a readable file
RecordStream(filepath) ==
    IF filepath = "a.dxf" THEN MaterialsDrawing
    ELSE IF filepath = "n.dxf" THEN NarrowDrawing
    ELSE <<>>

processDXFFile(filepath) ==
    IF ~Readable(filepath)
    THEN [panicked |-> FALSE, result |-> [ParseError EXCEPT !.FilePath = filepath]]
    ELSE TheOnly({[panicked |-> o.panicked,
                   result |-> [o.result EXCEPT !.FilePath = filepath]] :
                     o \in {ProcessFragments(RecordStream(filepath))}})

\* FileCache without RawContent (file bytes are not modelled).  TextEntities is
\* the slice findPipeClass has worked on.
NewFileCache == [TextEntities |-> <<>>, DrawingNo |-> "", PipeClass |-> ""]

\* processDXFFileWithCaching: the result of processDXFFile and the cache
\* pointer, <<>> for nil
FilledFileCache(stream) ==
    TheOnly({[TextEntities |-> located.entities,
              DrawingNo |-> findDrawingNo(stream),
              PipeClass |-> located.value] : located \in {findPipeClass(stream)}})

processDXFFileWithCaching(filepath, weld) ==
    TheOnly({[panicked |-> o.panicked,
              result |-> o.result,
              cache |-> IF ~weld THEN <<>>
                        ELSE IF Readable(filepath)
                        THEN <<FilledFileCache(RecordStream(filepath))>>
                        ELSE <<NewFileCache>>] :
                o \in {processDXFFile(filepath)}})

\* cleanQtyValue: the quantity without its M suffix
cleanQtyValue(qty) ==
    LET q == TrimSpace(qty)
    IN  IF HasSuffix(ToUpper(q), "M")
        THEN TrimSpace(TrimSuffix(TrimSuffix(q, "M"), "m"))
        ELSE q

\* index of the last header column of the given kind (the loop overwrites),
\* 0 for -1
ColumnKind(col) ==
    LET colUpper == ToUpper(TrimSpace(col))
    IN  IF Contains(colUpper, "COMPONENT DESCRIPTION") THEN "desc"
        ELSE IF Contains(colUpper, "N.S.") THEN "ns"
        ELSE IF Contains(colUpper, "QTY") THEN "qty"
        ELSE IF Contains(colUpper, "CATEGORY") THEN "category"
        ELSE ""

ColumnIndex(hdr, kind) ==
    LET I == {i \in 1..Len(hdr) : ColumnKind(hdr[i]) = kind}
    IN  IF I = {} THEN 0 ELSE CHOOSE i \in I : \A j \in I : j <= i

NoPipeInfo ==
    [Description |-> "No PIPE found", NS |-> "", Qty |-> "", PipeClass |-> "",
     Count |-> 0, AllPipes |-> <<>>]

\* extractPipeInfoFromBOM after its extractTable call returned table
PipeInfoOf(ents, table) ==
    LET descIndex == ColumnIndex(table.header, "desc")
        categoryIndex == ColumnIndex(table.header, "category")
        IsPipeRow(row) ==
            /\ Len(row) >= descIndex
            /\ \/ (categoryIndex > 0 /\ Len(row) >= categoryIndex
                      /\ ToUpper(TrimSpace(row[categoryIndex])) = "PIPE")
               \/ (categoryIndex = 0
                      /\ Contains(ToUpper(TrimSpace(row[descIndex])), "PIPE"))
            /\ TrimSpace(row[descIndex]) # ""
        pipeRows == SelectSeq(table.rows, IsPipeRow)
        withClass == [NoPipeInfo EXCEPT !.PipeClass = findPipeClass(ents).value]
    IN  IF Len(table.rows) = 0 THEN NoPipeInfo
        ELSE IF descIndex = 0 THEN withClass
        ELSE IF Len(pipeRows) = 0
        THEN withClass
        ELSE [withClass EXCEPT
                 !.Description = TrimSpace(pipeRows[1][1]),
                 !.Qty = IF Len(pipeRows[1]) > 1 THEN cleanQtyValue(TrimSpace(pipeRows[1][2]))
                         ELSE "",
                 !.Count = Len(pipeRows),
                 !.AllPipes = [i \in 1..Len(pipeRows) |-> TrimSpace(pipeRows[i][1])]]

extractPipeInfoFromBOM(ents) ==
    TheOnly({[panicked |-> table.panicked,
              info |-> IF table.panicked THEN NoPipeInfo ELSE PipeInfoOf(ents, table)] :
                table \in {extractTable(ents, "ERECTION MATERIALS", "weld")}})

EmptyWeldResult ==
    [FilePath |-> "", WeldCount |-> 0, PipeClass |-> "", PipeDescription |-> "",
     PipeNS |-> "", PipeQty |-> "", MultiplePipesNote |-> "", Error |-> ""]

\* strings.Join(pipes, "; ")
RECURSIVE JoinPipes(_)
JoinPipes(pipes) ==
    IF Len(pipes) = 0 THEN ""
    ELSE IF Len(pipes) = 1 THEN pipes[1]
    ELSE pipes[1] \o "; " \o JoinPipes(Tail(pipes))

\* processFile of the weld detector.  The files of the model hold no POLYLINE
\* records: no segment, no weld symbol, WeldCount 0.
processFile(filePath) ==
    IF ~Readable(filePath)
    THEN [panicked |-> FALSE,
          result |-> [EmptyWeldResult EXCEPT !.FilePath = filePath,
                                             !.Error = "Failed to read file"]]
    ELSE TheOnly({
        [panicked |-> bom.panicked,
         result |-> [EmptyWeldResult EXCEPT
                        !.FilePath = filePath,
                        !.PipeClass = bom.info.PipeClass,
                        !.PipeDescription = bom.info.Description,
                        !.PipeNS = bom.info.NS,
                        !.PipeQty = bom.info.Qty,
                        !.MultiplePipesNote =
                            IF bom.info.Count > 1
                            THEN "First of " \o ToString(bom.info.Count)
                                     \o " PIPE components selected: "
                                     \o JoinPipes(bom.info.AllPipes)
                            ELSE ""]] :
            bom \in {extractPipeInfoFromBOM(RecordStream(filePath))}})

\* processFile of the standalone weld detector: no table is extracted
StandaloneResult == [FilePath |-> "", WeldCount |-> 0, Error |-> ""]

standaloneProcessFile(filePath) ==
    [panicked |-> FALSE,
     result |-> IF Readable(filePath) THEN [StandaloneResult EXCEPT !.FilePath = filePath]
                ELSE [StandaloneResult EXCEPT !.FilePath = filePath,
                                              !.Error = "Failed to read file"]]

-----------------------------------------------------------------------------
(* The worker pools                                                        *)

\* processFilesParallel (bom_utils.go), processFilesParallelWithCaching
\* (spatial.go), processFiles of the weld detector (weld_detector.go) and
\* processFiles of the standalone weld detector, which starts one goroutine
\* per file behind a semaphore
PoolModes == {"processFilesParallel", "processFilesParallelWithCaching", "processFiles"}
SemaphoreMode == "standalone processFiles"
Modes == PoolModes \cup {SemaphoreMode}

\* file lists without a repeated path
DistinctLists(S, n) ==
    {l \in ListsOf(S, n) : \A i, j \in 1..n : i # j => l[i] # l[j]}

FileLists == UNION {DistinctLists(Paths, n) : n \in 1..MaxFiles}

\* what a goroutine gets from the single-file pipeline of its pool
PoolOutcome(o) == [panicked |-> o.panicked, result |-> o.result, cache |-> <<>>]

\* what a goroutine of pool m gets from the single-file pipeline on file f
SingleFile(m, weld, f) ==
    IF m = "processFilesParallel"
    THEN TheOnly({PoolOutcome(o) : o \in {processDXFFile(f)}})
    ELSE IF m = "processFilesParallelWithCaching"
    THEN processDXFFileWithCaching(f, weld)
    ELSE IF m = "processFiles"
    THEN TheOnly({PoolOutcome(o) : o \in {processFile(f)}})
    ELSE PoolOutcome(standaloneProcessFile(f))

Outcome(f) == fileOutcome[f]

\* the goroutines: the workers of a pool, or one goroutine per file
Goroutines == DOMAIN wState

BatchInit ==
    /\ bMode \in Modes
    /\ weldFlag \in BOOLEAN
    /\ (weldFlag => bMode = "processFilesParallelWithCaching")
    /\ bFiles \in FileLists
    /\ fileOutcome = [f \in {bFiles[i] : i \in 1..Len(bFiles)} |->
                          SingleFile(bMode, weldFlag, f)]
    /\ bWorkers \in 1..MaxWorkers
    /\ nextJob = 1
    /\ jobs = <<>> /\ jobsClosed = FALSE /\ results = <<>>
    /\ wState = <<>> /\ wFile = <<>>
    /\ mainPc = "start"
    /\ allResults = <<>> /\ fileCache = <<>>
    /\ semaphore = 0 /\ resultsClosed = FALSE /\ crashed = FALSE
    /\ TableIdle /\ FileIdle /\ PageIdle
    /\ MatchIdle /\ DedupIdle /\ DetectIdle /\ ParseIdle /\ MaterialsIdle
    /\ CutIdle /\ NearIdle /\ SeqIdle

BatchFrame ==
    UNCHANGED <<bMode, weldFlag, bFiles, fileOutcome, bWorkers, tableVars, fileVars, pageVars,
                weldVars, materialsVars, cutVars, nearVars, seqVars>>

\* "Start workers": the go statements of the pool
StartWorkers ==
    /\ ~crashed /\ mainPc = "start" /\ bMode \in PoolModes
    /\ wState' = [w \in 1..bWorkers |-> "receive"]
    /\ wFile' = [w \in 1..bWorkers |-> ""]
    /\ mainPc' = "send"
    /\ UNCHANGED <<nextJob, jobs, jobsClosed, results, allResults, fileCache, semaphore,
                   resultsClosed, crashed>>
    /\ BatchFrame

\* jobs <- filePath; the channel holds len(files) jobs, the send never blocks
SendJob ==
    /\ ~crashed /\ mainPc = "send" /\ nextJob <= Len(bFiles)
    /\ jobs' = Append(jobs, bFiles[nextJob])
    /\ nextJob' = nextJob + 1
    /\ UNCHANGED <<jobsClosed, results, wState, wFile, mainPc, allResults, fileCache,
                   semaphore, resultsClosed, crashed>>
    /\ BatchFrame

CloseJobs ==
    /\ ~crashed /\ mainPc = "send" /\ nextJob > Len(bFiles)
    /\ jobsClosed' = TRUE
    /\ mainPc' = "collect"
    /\ UNCHANGED <<nextJob, jobs, results, wState, wFile, allResults, fileCache, semaphore,
                   resultsClosed, crashed>>
    /\ BatchFrame

\* for filePath := range jobs: the next job
WorkerReceives(w) ==
    /\ ~crashed /\ bMode \in PoolModes /\ wState[w] = "receive" /\ Len(jobs) > 0
    /\ wFile' = [wFile EXCEPT ![w] = Head(jobs)]
    /\ jobs' = Tail(jobs)
    /\ wState' = [wState EXCEPT ![w] = "work"]
    /\ UNCHANGED <<nextJob, jobsClosed, results, mainPc, allResults, fileCache, semaphore,
                   resultsClosed, crashed>>
    /\ BatchFrame

\* for filePath := range jobs: the channel is closed and drained
WorkerExits(w) ==
    /\ ~crashed /\ bMode \in PoolModes /\ wState[w] = "receive"
    /\ Len(jobs) = 0 /\ jobsClosed
    /\ wState' = [wState EXCEPT ![w] = "exited"]
    /\ UNCHANGED <<nextJob, jobs, jobsClosed, results, wFile, mainPc, allResults, fileCache,
                   semaphore, resultsClosed, crashed>>
    /\ BatchFrame

\* the single-file pipeline returns
GoroutineProcesses(w) ==
    /\ ~crashed /\ wState[w] = "work" /\ ~Outcome(wFile[w]).panicked
    /\ wState' = [wState EXCEPT ![w] = "send"]
    /\ UNCHANGED <<nextJob, jobs, jobsClosed, results, wFile, mainPc, allResults, fileCache,
                   semaphore, resultsClosed, crashed>>
    /\ BatchFrame

\* the single-file pipeline panics; no goroutine recovers: the process ends
GoroutinePanics(w) ==
    /\ ~crashed /\ wState[w] = "work" /\ Outcome(wFile[w]).panicked
    /\ crashed' = TRUE
    /\ UNCHANGED <<nextJob, jobs, jobsClosed, results, wState, wFile, mainPc, allResults,
                   fileCache, semaphore, resultsClosed>>
    /\ BatchFrame

\* a worker that stores the cache of its file in the merged map itself
WorkerStoresAndSends(w) ==
    /\ ~crashed /\ bMode \in PoolModes /\ wState[w] = "send"
    /\ results' = Append(results, [result |-> Outcome(wFile[w]).result,
                                   cache |-> Outcome(wFile[w]).cache])
    /\ fileCache' =
           IF Outcome(wFile[w]).cache # <<>>
           THEN [f \in DOMAIN fileCache \cup {wFile[w]} |->
                    IF f = wFile[w] THEN Outcome(wFile[w]).cache[1] ELSE fileCache[f]]
           ELSE fileCache
    /\ wState' = [wState EXCEPT ![w] = "receive"]
    /\ UNCHANGED <<nextJob, jobs, jobsClosed, wFile, mainPc, allResults, semaphore,
                   resultsClosed, crashed>>
    /\ BatchFrame

\* results <- result; the channel holds len(files) results, the send never
\* blocks
WorkerSends(w) ==
    /\ ~crashed /\ bMode \in PoolModes /\ wState[w] = "send"
    /\ results' = Append(results, [result |-> Outcome(wFile[w]).result,
                                   cache |-> Outcome(wFile[w]).cache])
    /\ wState' = [wState EXCEPT ![w] = "receive"]
    /\ UNCHANGED <<nextJob, jobs, jobsClosed, wFile, mainPc, allResults, fileCache,
                   semaphore, resultsClosed, crashed>>
    /\ BatchFrame

\* one pass of the collecting loop: result := <-results, append, and in the
\* caching pool fileCache[result.FilePath] = *cache
CollectResult ==
    /\ ~crashed /\ bMode \in PoolModes /\ mainPc = "collect"
    /\ Len(allResults) < Len(bFiles) /\ Len(results) > 0
    /\ LET r == Head(results)
       IN  /\ allResults' = Append(allResults, r.result)
           /\ fileCache' =
                  IF weldFlag /\ r.cache # <<>>
                  THEN [f \in DOMAIN fileCache \cup {r.result.FilePath} |->
                           IF f = r.result.FilePath THEN r.cache[1] ELSE fileCache[f]]
                  ELSE fileCache
    /\ results' = Tail(results)
    /\ UNCHANGED <<nextJob, jobs, jobsClosed, wState, wFile, mainPc, semaphore,
                   resultsClosed, crashed>>
    /\ BatchFrame

ReturnResults ==
    /\ ~crashed /\ bMode \in PoolModes /\ mainPc = "collect"
    /\ Len(allResults) = Len(bFiles)
    /\ mainPc' = "returned"
    /\ UNCHANGED <<nextJob, jobs, jobsClosed, results, wState, wFile, allResults, fileCache,
                   semaphore, resultsClosed, crashed>>
    /\ BatchFrame

\* The standalone weld detector: wg.Add(1) and a go statement per file, then
\* the goroutine that waits for them and closes resultChan
StartGoroutines ==
    /\ ~crashed /\ mainPc = "start" /\ bMode = SemaphoreMode
    /\ wState' = [g \in 1..Len(bFiles) |-> "acquire"]
    /\ wFile' = [g \in 1..Len(bFiles) |-> bFiles[g]]
    /\ mainPc' = "collect"
    /\ UNCHANGED <<nextJob, jobs, jobsClosed, results, allResults, fileCache, semaphore,
                   resultsClosed, crashed>>
    /\ BatchFrame

\* semaphore <- struct{}{}: blocks while opwd.workers slots are held
AcquireSemaphore(g) ==
    /\ ~crashed /\ bMode = SemaphoreMode /\ wState[g] = "acquire"
    /\ semaphore < bWorkers
    /\ semaphore' = semaphore + 1
    /\ wState' = [wState EXCEPT ![g] = "work"]
    /\ UNCHANGED <<nextJob, jobs, jobsClosed, results, wFile, mainPc, allResults, fileCache,
                   resultsClosed, crashed>>
    /\ BatchFrame

\* resultChan <- result
SendToResultChan(g) ==
    /\ ~crashed /\ bMode = SemaphoreMode /\ wState[g] = "send"
    /\ results' = Append(results, [result |-> Outcome(wFile[g]).result, cache |-> <<>>])
    /\ wState' = [wState EXCEPT ![g] = "release"]
    /\ UNCHANGED <<nextJob, jobs, jobsClosed, wFile, mainPc, allResults, fileCache,
                   semaphore, resultsClosed, crashed>>
    /\ BatchFrame

\* <-semaphore, then the deferred wg.Done()
ReleaseSemaphore(g) ==
    /\ ~crashed /\ bMode = SemaphoreMode /\ wState[g] = "release"
    /\ semaphore' = semaphore - 1
    /\ wState' = [wState EXCEPT ![g] = "done"]
    /\ UNCHANGED <<nextJob, jobs, jobsClosed, results, wFile, mainPc, allResults, fileCache,
                   resultsClosed, crashed>>
    /\ BatchFrame

\* wg.Wait() returns; close(resultChan)
CloseResultChan ==
    /\ ~crashed /\ bMode = SemaphoreMode /\ mainPc # "start" /\ ~resultsClosed
    /\ \A g \in Goroutines : wState[g] = "done"
    /\ resultsClosed' = TRUE
    /\ UNCHANGED <<nextJob, jobs, jobsClosed, results, wState, wFile, mainPc, allResults,
                   fileCache, semaphore, crashed>>
    /\ BatchFrame

\* for result := range resultChan: the next result
CollectFromResultChan ==
    /\ ~crashed /\ bMode = SemaphoreMode /\ mainPc = "collect" /\ Len(results) > 0
    /\ allResults' = Append(allResults, Head(results).result)
    /\ results' = Tail(results)
    /\ UNCHANGED <<nextJob, jobs, jobsClosed, wState, wFile, mainPc, fileCache, semaphore,
                   resultsClosed, crashed>>
    /\ BatchFrame

\* for result := range resultChan: the channel is closed and drained
ReturnAfterClose ==
    /\ ~crashed /\ bMode = SemaphoreMode /\ mainPc = "collect"
    /\ Len(results) = 0 /\ resultsClosed
    /\ mainPc' = "returned"
    /\ UNCHANGED <<nextJob, jobs, jobsClosed, results, wState, wFile, allResults, fileCache,
                   semaphore, resultsClosed, crashed>>
    /\ BatchFrame

BatchNext ==
    \/ StartWorkers
    \/ SendJob
    \/ CloseJobs
    \/ \E w \in Goroutines : WorkerReceives(w)
    \/ \E w \in Goroutines : WorkerExits(w)
    \/ \E w \in Goroutines : GoroutineProcesses(w)
    \/ \E w \in Goroutines : GoroutinePanics(w)
    \/ \E w \in Goroutines : WorkerSends(w)
    \/ CollectResult
    \/ ReturnResults
    \/ StartGoroutines
    \/ \E g \in Goroutines : AcquireSemaphore(g)
    \/ \E g \in Goroutines : SendToResultChan(g)
    \/ \E g \in Goroutines : ReleaseSemaphore(g)
    \/ CloseResultChan
    \/ CollectFromResultChan
    \/ ReturnAfterClose

BatchSpec == BatchInit /\ [][BatchNext]_vars

-----------------------------------------------------------------------------
(* Claims about the worker pools                                           *)

\* positions of the results of file f in the returned list
ResultsOf(f) == {i \in 1..Len(allResults) : allResults[i].FilePath = f}

BatchFileSet == {bFiles[i] : i \in 1..Len(bFiles)}

\* a result without tables
HasNoTables(r) ==
    "MatRows" \in DOMAIN r =>
        /\ r.MatHeader = <<>> /\ r.MatRows = <<>>
        /\ r.CutHeader = <<>> /\ r.CutRows = <<>>

OneResultPerFile ==
    /\ Len(allResults) = Len(bFiles)
    /\ \A f \in BatchFileSet : Cardinality(ResultsOf(f)) = 1

\* C4: a batch with a file that cannot be read or parsed is not aborted, and
\* once it has returned, every file has exactly one result, the one the
\* single-file pipeline gives for that file alone; the result of the failing
\* file has a non-empty Error and no tables.
C4_ErrorIsolation ==
    (\E f \in BatchFileSet : ~Readable(f)) =>
        /\ ~crashed
        /\ mainPc = "returned" =>
              /\ OneResultPerFile
              /\ \A f \in BatchFileSet : \A i \in ResultsOf(f) :
                    /\ allResults[i] = SingleFile(bMode, weldFlag, f).result
                    /\ ~Readable(f) =>
                          allResults[i].Error # "" /\ HasNoTables(allResults[i])

\* C5: the batch call never stops before it has returned (no goroutine is
\* left blocked, the process does not end early), and the returned list holds
\* exactly one result per file of the list.
C5_CompleteAndTerminates ==
    /\ mainPc = "returned" \/ ENABLED BatchNext
    /\ mainPc = "returned" => OneResultPerFile

\* the step of a started goroutine: it changes its own position
GoroutineStep == mainPc # "start" /\ (wState' # wState \/ wFile' # wFile)

\* C6: the result list and the map from file path to cache change only in a
\* step of the collecting goroutine, which leaves every worker where it is; a
\* step of a worker takes at most the head of the jobs channel and adds at most
\* one result to the results channel, and writes nothing else the goroutines
\* share.
C6_SingleWriter ==
    [][ /\ (allResults' # allResults \/ fileCache' # fileCache) =>
              mainPc = "collect" /\ UNCHANGED <<wState, wFile>>
        /\ GoroutineStep =>
              /\ UNCHANGED <<allResults, fileCache, mainPc, jobsClosed, resultsClosed,
                             nextJob>>
              /\ jobs' = jobs \/ (jobs # <<>> /\ jobs' = Tail(jobs))
              /\ \/ results' = results
                 \/ /\ Len(results') = Len(results) + 1
                    /\ SubSeq(results', 1, Len(results)) = results
      ]_vars

\* the collector has written the result list and the cache map while a worker
\* is still at work on another file
C6_Witness ==
    /\ bMode = "processFilesParallelWithCaching" /\ weldFlag
    /\ allResults # <<>> /\ DOMAIN fileCache # {}
    /\ \E w \in Goroutines : wState[w] = "work"

\* C7: the merged map holds an entry only when no job is left and every
\* worker of the pool has sent the result of its last file.
C7_MergeAfterWorkers ==
    DOMAIN fileCache # {} =>
        /\ jobs = <<>>
        /\ \A w \in Goroutines : wState[w] \notin {"work", "send"}

-----------------------------------------------------------------------------
(* Weld symbols: lengths                                                   *)

\* Coordinates and lengths of segments are float64 in the program.  Here they
\* are integers in thousandths of a drawing unit; the target lengths and the
\* tolerance are in ten-thousandths, which is exact for them.
Milli(n) == n * 1000

weldLengthPairs == << <<40311, 69462>>, <<68964, 39446>>, <<69000, 40000>> >>

targetLengths == <<40311, 69462, 68964, 39446, 69000, 40000>>

\* tolerance := 0.01
LengthTolerance == 100

\* math.Abs(length-target) <= tolerance, length in thousandths
WithinTolerance(length, target) == AbsInt(10 * length - target) <= LengthTolerance

\* a comparison that tries each pair in its written order only
lengthsMatchInOrder(len1, len2) ==
    \E k \in 1..Len(weldLengthPairs) :
        /\ WithinTolerance(len1, weldLengthPairs[k][1])
        /\ WithinTolerance(len2, weldLengthPairs[k][2])

lengthsMatch(len1, len2) ==
    \E k \in 1..Len(weldLengthPairs) :
        \/ /\ WithinTolerance(len1, weldLengthPairs[k][1])
           /\ WithinTolerance(len2, weldLengthPairs[k][2])
        \/ /\ WithinTolerance(len1, weldLengthPairs[k][2])
           /\ WithinTolerance(len2, weldLengthPairs[k][1])

isTargetLength(length) ==
    \E k \in 1..Len(targetLengths) : WithinTolerance(length, targetLengths[k])

\* The lengths lengthsMatch is called with: every target length, rounded to
\* thousandths, moved by up to MaxOffset steps of 4 thousandths either way
\* (no sample lies at exactly 0.01 from a target, where the float64
\* subtraction decides)
MaxOffset == 3

LengthSamples ==
    {targetLengths[k] \div 10 + 4 * d : k \in 1..Len(targetLengths), d \in (0 - MaxOffset)..MaxOffset}

MatchInit ==
    /\ mLen1 \in LengthSamples
    /\ mLen2 \in LengthSamples
    /\ mPc = "call"
    /\ mResult = <<>>
    /\ TableIdle /\ FileIdle /\ PageIdle /\ BatchIdle
    /\ DedupIdle /\ DetectIdle /\ ParseIdle /\ MaterialsIdle
    /\ CutIdle /\ NearIdle /\ SeqIdle

LengthsMatchReturns ==
    /\ mPc = "call"
    /\ mResult' = [ab |-> lengthsMatch(mLen1, mLen2), ba |-> lengthsMatch(mLen2, mLen1)]
    /\ mPc' = "returned"
    /\ UNCHANGED <<mLen1, mLen2, tableVars, fileVars, pageVars, batchVars, dedupVars,
                   detectVars, parseVars, materialsVars, cutVars, nearVars, seqVars>>

MatchNext == LengthsMatchReturns

MatchSpec == MatchInit /\ [][MatchNext]_vars

\* the distance of a length from a target, in ten-thousandths
Off(length, target) ==
    IF 10 * length >= target THEN 10 * length - target ELSE target - 10 * length

\* C15: lengthsMatch gives the same answer for both argument orders, and it
\* is true only when one length is within 0.01 of one member of a known pair
\* and the other length within 0.01 of the other member of the same pair.
C15_LengthsMatchSymmetric ==
    mPc = "returned" =>
        /\ mResult.ab = mResult.ba
        /\ mResult.ab =>
              \E k \in 1..Len(weldLengthPairs) : \E m \in 1..2 :
                  /\ Off(mLen1, weldLengthPairs[k][m]) <= 100
                  /\ Off(mLen2, weldLengthPairs[k][3 - m]) <= 100

\* lengthsMatch has answered true for a pair given in the order opposite to
\* the one the table lists it in
C15_Witness ==
    /\ mPc = "returned" /\ mResult.ab
    /\ ~lengthsMatchInOrder(mLen1, mLen2)

-----------------------------------------------------------------------------
(* Weld symbols: removeDuplicateSymbols                                    *)

\* the largest r in lo..hi with r * r <= n (lo * lo <= n)
RECURSIVE RootBetween(_, _, _)
RootBetween(n, lo, hi) ==
    IF lo >= hi THEN lo
    ELSE LET mid == (lo + hi + 1) \div 2
         IN  IF mid * mid <= n THEN RootBetween(n, mid, hi)
             ELSE RootBetween(n, lo, mid - 1)

\* math.Sqrt(dx*dx + dy*dy) in thousandths, rounded down: exact when the root
\* is a whole number of thousandths (every distance between points on a common
\* horizontal or vertical line), and exact in a comparison with a whole
\* threshold
distance(x1, y1, x2, y2) ==
    LET dx == x2 - x1
        dy == y2 - y1
    IN  IF dy = 0 THEN AbsInt(dx)
        ELSE IF dx = 0 THEN AbsInt(dy)
        ELSE RootBetween(dx * dx + dy * dy, 0, 32000)

\* duplicateThreshold := 5.0
duplicateThreshold == 5000

WeldSymbol(cx, cy, l1, l2, layer, confidence) ==
    [CenterX |-> cx, CenterY |-> cy, Length1 |-> l1, Length2 |-> l2, Layer |-> layer,
     Confidence |-> confidence]

\* a loop that compares a symbol with the last accepted symbol only
isDuplicateOfLast(symbol, kept) ==
    /\ Len(kept) > 0
    /\ distance(symbol.CenterX, symbol.CenterY, kept[Len(kept)].CenterX,
                kept[Len(kept)].CenterY) < duplicateThreshold

\* the inner loop: some symbol already in unique is closer than the threshold
isDuplicate(symbol, kept) ==
    \E k \in 1..Len(kept) :
        distance(symbol.CenterX, symbol.CenterY, kept[k].CenterX, kept[k].CenterY)
            < duplicateThreshold

RECURSIVE UniqueSymbols(_, _)
UniqueSymbols(list, n) ==
    IF n = 0 THEN <<>>
    ELSE LET before == UniqueSymbols(list, n - 1)
         IN  IF isDuplicate(list[n], before) THEN before ELSE Append(before, list[n])

removeDuplicateSymbols(list) ==
    IF Len(list) <= 1 THEN list ELSE UniqueSymbols(list, Len(list))

\* Candidate lists: symbols centred on a few points, among them two points
\* exactly 5.0 apart and points less than 5.0 from two others
MaxSymbols == 4

SymbolCentres ==
    { <<0, 0>>, <<Milli(3), Milli(4)>>, <<Milli(4), 0>>, <<Milli(8), 0>> }

CandidateSymbols ==
    {WeldSymbol(c[1], c[2], 6900, Milli(4), "0", [num |-> 1, den |-> 1]) :
        c \in SymbolCentres}

CandidateLists == UNION {ListsOf(CandidateSymbols, n) : n \in 0..MaxSymbols}

DedupInit ==
    /\ firstInput \in CandidateLists
    /\ symbols = firstInput
    /\ uPass = 1
    /\ uPc = "loop" /\ uPos = 0 /\ unique = <<>>
    /\ TableIdle /\ FileIdle /\ PageIdle /\ BatchIdle
    /\ MatchIdle /\ DetectIdle /\ ParseIdle /\ MaterialsIdle
    /\ CutIdle /\ NearIdle /\ SeqIdle

DedupFrame ==
    UNCHANGED <<firstInput, tableVars, fileVars, pageVars, batchVars, matchVars, detectVars,
                parseVars, materialsVars, cutVars, nearVars, seqVars>>

\* if len(symbols) <= 1 { return symbols }
ReturnShortList ==
    /\ uPc = "loop" /\ Len(symbols) <= 1
    /\ unique' = symbols
    /\ uPc' = "returned"
    /\ UNCHANGED <<symbols, uPos, uPass>>
    /\ DedupFrame

\* a loop that puts the accepted symbol in front of the list
KeepSymbolInFront ==
    /\ uPc = "loop" /\ Len(symbols) > 1 /\ uPos < Len(symbols)
    /\ ~isDuplicate(symbols[uPos + 1], unique)
    /\ unique' = <<symbols[uPos + 1]>> \o unique
    /\ uPos' = uPos + 1
    /\ UNCHANGED <<symbols, uPc, uPass>>
    /\ DedupFrame

\* one pass of the outer loop, the symbol is appended
KeepSymbol ==
    /\ uPc = "loop" /\ Len(symbols) > 1 /\ uPos < Len(symbols)
    /\ ~isDuplicate(symbols[uPos + 1], unique)
    /\ unique' = Append(unique, symbols[uPos + 1])
    /\ uPos' = uPos + 1
    /\ UNCHANGED <<symbols, uPc, uPass>>
    /\ DedupFrame

\* one pass of the outer loop, the symbol is a duplicate
DropDuplicate ==
    /\ uPc = "loop" /\ Len(symbols) > 1 /\ uPos < Len(symbols)
    /\ isDuplicate(symbols[uPos + 1], unique)
    /\ uPos' = uPos + 1
    /\ UNCHANGED <<symbols, unique, uPc, uPass>>
    /\ DedupFrame

ReturnUnique ==
    /\ uPc = "loop" /\ Len(symbols) > 1 /\ uPos = Len(symbols)
    /\ uPc' = "returned"
    /\ UNCHANGED <<symbols, unique, uPos, uPass>>
    /\ DedupFrame

\* the function is called again, on the list it has returned
CallOnResult ==
    /\ uPc = "returned" /\ uPass = 1
    /\ symbols' = unique
    /\ uPass' = 2
    /\ uPc' = "loop" /\ uPos' = 0 /\ unique' = <<>>
    /\ DedupFrame

DedupNext ==
    \/ ReturnShortList
    \/ KeepSymbol
    \/ DropDuplicate
    \/ ReturnUnique
    \/ CallOnResult

DedupSpec == DedupInit /\ [][DedupNext]_vars

\* the centres of two symbols are less than 5.0 apart
Closer(a, b) ==
    (a.CenterX - b.CenterX) * (a.CenterX - b.CenterX)
        + (a.CenterY - b.CenterY) * (a.CenterY - b.CenterY) < 5000 * 5000

\* kept is the sublist of list at the positions K, in order
IsSublistAt(kept, list, K) ==
    /\ Cardinality(K) = Len(kept)
    /\ \A i \in K : kept[Cardinality({k \in K : k <= i})] = list[i]

\* C13: the returned list is the input restricted to a set of positions (so
\* the kept candidates keep their order), no two kept candidates are less than
\* 5.0 apart, and every dropped candidate is less than 5.0 from a kept
\* candidate at an earlier position of the input.
C13_DedupSeparation ==
    uPc = "returned" =>
        \E K \in SUBSET (1..Len(symbols)) :
            /\ IsSublistAt(unique, symbols, K)
            /\ \A i, j \in K : i # j => ~Closer(symbols[i], symbols[j])
            /\ \A i \in (1..Len(symbols)) \ K :
                  \E j \in K : j < i /\ Closer(symbols[i], symbols[j])

\* a candidate was dropped, and a later candidate less than 5.0 from the
\* dropped one was kept
C13_Witness ==
    /\ uPc = "returned" /\ uPass = 1
    /\ Len(unique) < Len(symbols)
    /\ \E i, j \in 1..Len(symbols) :
          /\ i < j /\ Closer(symbols[i], symbols[j])
          /\ \A k \in 1..Len(unique) : unique[k] # symbols[i]
          /\ \E k \in 1..Len(unique) : unique[k] = symbols[j]

\* C14: removeDuplicateSymbols applied to its own result returns that result.
C14_DedupIdempotent ==
    (uPc = "returned" /\ uPass = 2) =>
        /\ symbols = removeDuplicateSymbols(firstInput)
        /\ unique = symbols

\* the second call has returned, after a first call that dropped a candidate
\* and kept two
C14_Witness ==
    /\ uPc = "returned" /\ uPass = 2
    /\ Len(unique) >= 2 /\ Len(unique) < Len(firstInput)

-----------------------------------------------------------------------------
(* Weld symbols: detectWeldSymbols                                         *)

RECURSIVE GCD(_, _)
GCD(a, b) == IF b = 0 THEN a ELSE GCD(b, a % b)

\* the quotient n / d as a fraction in lowest terms with a positive denominator
Ratio(n, d) ==
    LET g == GCD(AbsInt(n), AbsInt(d))
        sign == IF d < 0 THEN 0 - 1 ELSE 1
    IN  [num |-> sign * (n \div g), den |-> sign * (d \div g)]

\* v * (n / d), exact when the product is a whole number of thousandths
TimesRatio(v, n, d) ==
    LET r == Ratio(n, d) IN (v * r.num) \div r.den

\* n / d >= 0 && n / d <= 1
InUnitInterval(n, d) ==
    IF d > 0 THEN 0 <= n /\ n <= d ELSE d <= n /\ n <= 0

PolylineSegment(x1, y1, x2, y2, layer) ==
    [X1 |-> x1, Y1 |-> y1, X2 |-> x2, Y2 |-> y2,
     Length |-> distance(x1, y1, x2, y2), Layer |-> layer]

NoIntersection == [ix |-> 0, iy |-> 0, ok |-> FALSE]

\* coordinates are whole thousandths, so a denominator below 1e-10 is zero
linesIntersect(seg1, seg2) ==
    LET x1 == seg1.X1  y1 == seg1.Y1  x2 == seg1.X2  y2 == seg1.Y2
        x3 == seg2.X1  y3 == seg2.Y1  x4 == seg2.X2  y4 == seg2.Y2
        denom == (x1 - x2) * (y3 - y4) - (y1 - y2) * (x3 - x4)
        tNum == (x1 - x3) * (y3 - y4) - (y1 - y3) * (x3 - x4)
        uNum == 0 - ((x1 - x2) * (y1 - y3) - (y1 - y2) * (x1 - x3))
    IN  IF denom = 0 THEN NoIntersection
        ELSE IF InUnitInterval(tNum, denom) /\ InUnitInterval(uNum, denom)
        THEN [ix |-> x1 + TimesRatio(x2 - x1, tNum, denom),
              iy |-> y1 + TimesRatio(y2 - y1, tNum, denom),
              ok |-> TRUE]
        ELSE NoIntersection

\* dist <= length * 0.5
WithinHalfLength(dist, length) == 2 * dist <= length

\* !(distToMid > seg.Length * 0.3)
WithinMidTolerance(dist, length) == 10 * dist <= 3 * length

MaxOf2(a, b) == IF a >= b THEN a ELSE b

distToMid(ix, iy, seg) ==
    distance(ix, iy, (seg.X1 + seg.X2) \div 2, (seg.Y1 + seg.Y2) \div 2)

\* 1.0 - (maxDistToMid / maxTolerance), the tolerances being 0.3 * Length
confidenceOf(d1, d2, len1, len2) ==
    LET maxLength == MaxOf2(len1, len2)
        maxDistToMid == MaxOf2(d1, d2)
    IN  Ratio(3 * maxLength - 10 * maxDistToMid, 3 * maxLength)

\* what one pass of the inner loop does with the pair seg1, seg2
PairOutcome(seg1, seg2) ==
    IF ~lengthsMatch(seg1.Length, seg2.Length) THEN [kind |-> "lengths"]
    ELSE LET x == linesIntersect(seg1, seg2)
         IN  IF ~x.ok THEN [kind |-> "apart"]
             ELSE LET d1 == distToMid(x.ix, x.iy, seg1)
                      d2 == distToMid(x.ix, x.iy, seg2)
                  IN  IF ~WithinMidTolerance(d1, seg1.Length)
                         \/ ~WithinMidTolerance(d2, seg2.Length)
                      THEN [kind |-> "offcentre"]
                      ELSE [kind |-> "weld",
                            symbol |-> WeldSymbol(x.ix, x.iy, seg1.Length, seg2.Length,
                                                  seg1.Layer,
                                                  confidenceOf(d1, d2, seg1.Length,
                                                               seg2.Length))]

\* Candidate segments: one horizontal stroke of length 6.9 and strokes across
\* it, at its midpoint and 20% and 40% of its length off its midpoint, centred
\* on the crossing or 25% and 35% of their own length off it; a stroke above
\* it, a stroke along it, a crossing stroke of the same length, and the pair
\* of lengths 6.946 and 4.032 crossing at both midpoints
MaxSegments == 3

CrossStroke(x, yLow) == PolylineSegment(x, yLow, x, yLow + Milli(4), "0")

CandidateSegments ==
    { PolylineSegment(0, 0, 6900, 0, "W"),
      CrossStroke(3450, 0 - 2000),
      CrossStroke(3450 + 1380, 0 - 2000),
      CrossStroke(3450 + 2760, 0 - 2000),
      CrossStroke(3450, 0 - 1000),
      CrossStroke(3450, 0 - 600),
      CrossStroke(3450, 1000),
      PolylineSegment(1450, 0, 5450, 0, "0"),
      PolylineSegment(3450, 0 - 3450, 3450, 3450, "0"),
      PolylineSegment(0, 10000, 6946, 10000, "0"),
      PolylineSegment(3473, 10000 - 2016, 3473, 10000 + 2016, "0") }

\* Two strokes of length 6.9 end to end on one line, the first crossed by two
\* strokes of length 4, each 2.0 off its midpoint, the second crossed by one
\* stroke at its midpoint: three crossings on a line, 4.0 and 4.0 apart
WeldRow ==
    << PolylineSegment(0, 0, 6900, 0, "W"),
       CrossStroke(3450 - 2000, 0 - 2000),
       CrossStroke(3450 + 2000, 0 - 2000),
       PolylineSegment(6000, 0, 12900, 0, "W"),
       CrossStroke(9450, 0 - 2000) >>

Reordered(list, p) == [k \in 1..Len(list) |-> list[p[k]]]

Orderings(list) == {Reordered(list, p) : p \in Permutations(1..Len(list))}

SegmentLists ==
    UNION {ListsOf(CandidateSegments, n) : n \in 0..MaxSegments} \cup Orderings(WeldRow)

DetectInit ==
    /\ dSegments \in SegmentLists
    /\ dI = 1 /\ dJ = 2
    /\ dPc = "pairs"
    /\ weldSymbols = <<>> /\ dPairs = <<>> /\ dResult = <<>>
    /\ TableIdle /\ FileIdle /\ PageIdle /\ BatchIdle
    /\ MatchIdle /\ DedupIdle /\ ParseIdle /\ MaterialsIdle
    /\ CutIdle /\ NearIdle /\ SeqIdle

DetectFrame ==
    UNCHANGED <<dSegments, tableVars, fileVars, pageVars, batchVars, matchVars, dedupVars,
                parseVars, materialsVars, cutVars, nearVars, seqVars>>

\* if len(segments) == 0 { return weldSymbols }
ReturnNoSegments ==
    /\ dPc = "pairs" /\ Len(dSegments) = 0
    /\ dPc' = "returned"
    /\ dResult' = weldSymbols
    /\ UNCHANGED <<dI, dJ, weldSymbols, dPairs>>
    /\ DetectFrame

InPairLoop == dPc = "pairs" /\ dI < Len(dSegments)

\* j++, and i++ with j := i + 1 at the end of the inner loop
NextPair ==
    IF dJ < Len(dSegments) THEN dI' = dI /\ dJ' = dJ + 1
    ELSE dI' = dI + 1 /\ dJ' = dI + 2

\* if !lengthsMatch(seg1.Length, seg2.Length) { continue }
SkipLengths ==
    /\ InPairLoop
    /\ PairOutcome(dSegments[dI], dSegments[dJ]).kind = "lengths"
    /\ NextPair
    /\ UNCHANGED <<dPc, weldSymbols, dPairs, dResult>>
    /\ DetectFrame

\* if !intersects { continue }
SkipNotCrossed ==
    /\ InPairLoop
    /\ PairOutcome(dSegments[dI], dSegments[dJ]).kind = "apart"
    /\ NextPair
    /\ UNCHANGED <<dPc, weldSymbols, dPairs, dResult>>
    /\ DetectFrame

\* if distToMid1 > tolerance1 || distToMid2 > tolerance2 { continue }
SkipOffCentre ==
    /\ InPairLoop
    /\ PairOutcome(dSegments[dI], dSegments[dJ]).kind = "offcentre"
    /\ NextPair
    /\ UNCHANGED <<dPc, weldSymbols, dPairs, dResult>>
    /\ DetectFrame

AppendWeldSymbol ==
    /\ InPairLoop
    /\ LET o == PairOutcome(dSegments[dI], dSegments[dJ])
       IN  /\ o.kind = "weld"
           /\ weldSymbols' = Append(weldSymbols, o.symbol)
    /\ dPairs' = Append(dPairs, <<dI, dJ>>)
    /\ NextPair
    /\ UNCHANGED <<dPc, dResult>>
    /\ DetectFrame

\* return removeDuplicateSymbols(weldSymbols)
DetectReturns ==
    /\ dPc = "pairs" /\ Len(dSegments) > 0 /\ dI >= Len(dSegments)
    /\ dPc' = "returned"
    /\ dResult' = removeDuplicateSymbols(weldSymbols)
    /\ UNCHANGED <<dI, dJ, weldSymbols, dPairs>>
    /\ DetectFrame

DetectNext ==
    \/ ReturnNoSegments
    \/ SkipLengths
    \/ SkipNotCrossed
    \/ SkipOffCentre
    \/ AppendWeldSymbol
    \/ DetectReturns

DetectSpec == DetectInit /\ [][DetectNext]_vars

\* the pass of the inner loop for the pair i, j is over
PairDone(i, j) ==
    /\ i < j /\ j <= Len(dSegments)
    /\ dPc = "returned" \/ i < dI \/ (i = dI /\ j < dJ)

IsCandidatePair(i, j) == \E k \in 1..Len(dPairs) : dPairs[k] = <<i, j>>

\* a length within 0.01 of a target length
Near(length, target) ==
    10 * length - target <= 100 /\ target - 10 * length <= 100

KnownPair(len1, len2) ==
    \E k \in 1..Len(weldLengthPairs) :
        \/ Near(len1, weldLengthPairs[k][1]) /\ Near(len2, weldLengthPairs[k][2])
        \/ Near(len1, weldLengthPairs[k][2]) /\ Near(len2, weldLengthPairs[k][1])

CrossProduct(ax, ay, bx, by) == ax * by - ay * bx

\* the crossing of two segments, from the parameters t (along a) and u (along
\* b) of the point where their lines meet:  a.1 + t * da = b.1 + u * db
Crossing(a, b) ==
    LET dax == a.X2 - a.X1  day == a.Y2 - a.Y1
        dbx == b.X2 - b.X1  dby == b.Y2 - b.Y1
        cross == CrossProduct(dax, day, dbx, dby)
        tTimes == CrossProduct(b.X1 - a.X1, b.Y1 - a.Y1, dbx, dby)
        uTimes == CrossProduct(b.X1 - a.X1, b.Y1 - a.Y1, dax, day)
    IN  IF cross # 0 /\ InUnitInterval(tTimes, cross) /\ InUnitInterval(uTimes, cross)
        THEN [crossed |-> TRUE,
              x |-> b.X1 + TimesRatio(dbx, uTimes, cross),
              y |-> b.Y1 + TimesRatio(dby, uTimes, cross)]
        ELSE [crossed |-> FALSE, x |-> 0, y |-> 0]

\* the distance from the crossing to the midpoint of a segment that lies along
\* an axis
OffMidpoint(c, seg) ==
    AbsInt(2 * c.x - seg.X1 - seg.X2) \div 2 + AbsInt(2 * c.y - seg.Y1 - seg.Y2) \div 2

Accepted(a, b) ==
    /\ KnownPair(a.Length, b.Length)
    /\ Crossing(a, b).crossed
    /\ 10 * OffMidpoint(Crossing(a, b), a) <= 3 * a.Length
    /\ 10 * OffMidpoint(Crossing(a, b), b) <= 3 * b.Length

\* confidence = 1 - max(d1, d2) / max(0.3 * len1, 0.3 * len2)
ConfidenceIs(c, a, b) ==
    LET d1 == OffMidpoint(Crossing(a, b), a)
        d2 == OffMidpoint(Crossing(a, b), b)
        maxDist == IF d1 > d2 THEN d1 ELSE d2
        maxLen == IF a.Length > b.Length THEN a.Length ELSE b.Length
    IN  /\ c.den > 0
        /\ c.num * (3 * maxLen) = c.den * (3 * maxLen - 10 * maxDist)
        /\ 0 <= c.num /\ c.num <= c.den
        /\ (d1 = 0 /\ d2 = 0) => c.num = c.den

\* a crossing 40% of the length of one of the two segments off its midpoint
CrossesFarOff(a, b) ==
    /\ Crossing(a, b).crossed
    /\ \/ 10 * OffMidpoint(Crossing(a, b), a) = 4 * a.Length
       \/ 10 * OffMidpoint(Crossing(a, b), b) = 4 * b.Length

\* C16: a pair i < j of segments yields a candidate exactly when its lengths
\* match a known pair, the segments cross (not parallel, both parameters in
\* [0,1]) and the crossing is within 0.3 of its own length of each midpoint;
\* each pair yields at most one candidate, the candidates are in pair order,
\* the confidence of a candidate is 1 - max(d1,d2)/max(0.3 len1, 0.3 len2),
\* lies in [0,1] and is 1 for a crossing at both midpoints; a crossing 40% of
\* a segment's length off its midpoint yields no candidate.
C16_WeldAcceptance ==
    /\ Len(weldSymbols) = Len(dPairs)
    /\ \A i, j \in 1..Len(dSegments) :
          PairDone(i, j) =>
              /\ IsCandidatePair(i, j) <=> Accepted(dSegments[i], dSegments[j])
              /\ CrossesFarOff(dSegments[i], dSegments[j]) => ~IsCandidatePair(i, j)
    /\ \A k \in 1..Len(dPairs) :
          /\ PairDone(dPairs[k][1], dPairs[k][2])
          /\ \A m \in 1..(k - 1) :
                \/ dPairs[m][1] < dPairs[k][1]
                \/ dPairs[m][1] = dPairs[k][1] /\ dPairs[m][2] < dPairs[k][2]
          /\ ConfidenceIs(weldSymbols[k].Confidence, dSegments[dPairs[k][1]],
                          dSegments[dPairs[k][2]])
          /\ weldSymbols[k].CenterX = Crossing(dSegments[dPairs[k][1]],
                                               dSegments[dPairs[k][2]]).x
          /\ weldSymbols[k].CenterY = Crossing(dSegments[dPairs[k][1]],
                                               dSegments[dPairs[k][2]]).y

\* the call has returned with a candidate of confidence 1, after rejecting a
\* pair of matching lengths that crosses 40% off a midpoint
C16_Witness ==
    /\ dPc = "returned"
    /\ \E k \in 1..Len(weldSymbols) :
          weldSymbols[k].Confidence.num = weldSymbols[k].Confidence.den
    /\ \E i, j \in 1..Len(dSegments) :
          /\ i < j /\ CrossesFarOff(dSegments[i], dSegments[j])
          /\ KnownPair(dSegments[i].Length, dSegments[j].Length)
          /\ ~IsCandidatePair(i, j)

-----------------------------------------------------------------------------
(* Weld symbols: parsePolylineSegmentsOptimized                            *)

\* one group code line and the value line that follows it
Record(code, value) == [code |-> code, value |-> value]

\* strconv.ParseFloat(line, 64)
ParseFloat(line) ==
    IF IsDecimal(line) THEN [ok |-> TRUE, val |-> FloatMilli(line)]
    ELSE [ok |-> FALSE, val |-> 0]

\* the segments of the vertex list that have a target length, in order
RECURSIVE TargetSegments(_, _, _)
TargetSegments(vs, layer, n) ==
    IF n < 2 THEN <<>>
    ELSE LET segment == PolylineSegment(vs[n - 1][1], vs[n - 1][2], vs[n][1], vs[n][2],
                                        layer)
             before == TargetSegments(vs, layer, n - 1)
         IN  IF isTargetLength(segment.Length) THEN Append(before, segment) ELSE before

\* Contents: entities of a drawing file, each with its records.  A POLYLINE
\* with its layer and the point of its header, SEQEND, a VERTEX at (4, 0), a
\* VERTEX at (4, 6.9) with layer and elevation, a VERTEX that has an X and no
\* Y, a VERTEX that has a Y and no X, and a TEXT whose X is not a number.
MaxEntities == 5

FileEntities ==
    { << Record("0", "POLYLINE"), Record("8", "W"), Record("10", "0"), Record("20", "0") >>,
      << Record("0", "SEQEND") >>,
      << Record("0", "VERTEX"), Record("10", "4"), Record("20", "0") >>,
      << Record("0", "VERTEX"), Record("8", "V"), Record("10", "4"), Record("20", "6.9"),
         Record("30", "0") >>,
      << Record("0", "VERTEX"), Record("10", "0") >>,
      << Record("0", "VERTEX"), Record("20", "6.9") >>,
      << Record("0", "TEXT"), Record("10", "x"), Record("20", "0") >> }

RECURSIVE Flatten(_)
Flatten(list) ==
    IF Len(list) = 0 THEN <<>> ELSE list[1] \o Flatten(SubSeq(list, 2, Len(list)))

\* the contents of the files of at most n entities
Contents(n) == {Flatten(l) : l \in UNION {ListsOf(FileEntities, k) : k \in 0..n}}

ParseInit ==
    /\ pContent \in Contents(MaxEntities)
    /\ pPos = 0
    /\ inPolyline = FALSE /\ inVertex = FALSE
    /\ vertices = <<>> /\ currentX = 0 /\ currentY = 0 /\ currentLayer = ""
    /\ segments = <<>>
    /\ pPc = "scan"
    /\ TableIdle /\ FileIdle /\ PageIdle /\ BatchIdle
    /\ MatchIdle /\ DedupIdle /\ DetectIdle /\ MaterialsIdle
    /\ CutIdle /\ NearIdle /\ SeqIdle

ParseFrame ==
    UNCHANGED <<pContent, tableVars, fileVars, pageVars, batchVars, matchVars, dedupVars,
                detectVars, materialsVars, cutVars, nearVars, seqVars>>

\* scanner.Scan() has delivered a group code and its value
Scanned == pPc = "scan" /\ pPos < Len(pContent)
Current == pContent[pPos + 1]

\* case "0", line == "POLYLINE"
ReadPolyline ==
    /\ Scanned /\ Current = Record("0", "POLYLINE")
    /\ inPolyline' = TRUE
    /\ vertices' = <<>>
    /\ pPos' = pPos + 1
    /\ UNCHANGED <<inVertex, currentX, currentY, currentLayer, segments, pPc>>
    /\ ParseFrame

\* case "0", line == "SEQEND" && inPolyline
ReadSeqend ==
    /\ Scanned /\ Current = Record("0", "SEQEND") /\ inPolyline
    /\ segments' = segments \o TargetSegments(vertices, currentLayer, Len(vertices))
    /\ inPolyline' = FALSE
    /\ inVertex' = FALSE
    /\ pPos' = pPos + 1
    /\ UNCHANGED <<vertices, currentX, currentY, currentLayer, pPc>>
    /\ ParseFrame

\* case "0", line == "VERTEX" && inPolyline
ReadVertex ==
    /\ Scanned /\ Current = Record("0", "VERTEX") /\ inPolyline
    /\ inVertex' = TRUE
    /\ pPos' = pPos + 1
    /\ UNCHANGED <<inPolyline, vertices, currentX, currentY, currentLayer, segments, pPc>>
    /\ ParseFrame

\* case "0" with none of the three branches taken, and every group code that
\* the switch has no case for
ReadOther ==
    /\ Scanned
    /\ \/ /\ Current.code = "0"
          /\ Current.value # "POLYLINE"
          /\ ~(Current.value \in {"SEQEND", "VERTEX"} /\ inPolyline)
       \/ Current.code \notin {"0", "8", "10", "20"}
    /\ pPos' = pPos + 1
    /\ UNCHANGED <<inPolyline, inVertex, vertices, currentX, currentY, currentLayer, segments,
                   pPc>>
    /\ ParseFrame

\* case "8"
ReadLayer ==
    /\ Scanned /\ Current.code = "8"
    /\ currentLayer' = IF inPolyline THEN Current.value ELSE currentLayer
    /\ pPos' = pPos + 1
    /\ UNCHANGED <<inPolyline, inVertex, vertices, currentX, currentY, segments, pPc>>
    /\ ParseFrame

\* case "10"
ReadX ==
    /\ Scanned /\ Current.code = "10"
    /\ currentX' = IF inPolyline /\ inVertex /\ ParseFloat(Current.value).ok
                   THEN ParseFloat(Current.value).val ELSE currentX
    /\ pPos' = pPos + 1
    /\ UNCHANGED <<inPolyline, inVertex, vertices, currentY, currentLayer, segments, pPc>>
    /\ ParseFrame

\* case "20"
ReadY ==
    /\ Scanned /\ Current.code = "20"
    /\ IF inPolyline /\ inVertex /\ ParseFloat(Current.value).ok
       THEN /\ currentY' = ParseFloat(Current.value).val
            /\ vertices' = Append(vertices, <<currentX, ParseFloat(Current.value).val>>)
            /\ inVertex' = FALSE
       ELSE UNCHANGED <<currentY, vertices, inVertex>>
    /\ pPos' = pPos + 1
    /\ UNCHANGED <<inPolyline, currentX, currentLayer, segments, pPc>>
    /\ ParseFrame

\* return segments, scanner.Err()
ParseReturns ==
    /\ pPc = "scan" /\ pPos = Len(pContent)
    /\ pPc' = "returned"
    /\ UNCHANGED <<pPos, inPolyline, inVertex, vertices, currentX, currentY, currentLayer,
                   segments>>
    /\ ParseFrame

ParseNext ==
    \/ ReadPolyline
    \/ ReadSeqend
    \/ ReadVertex
    \/ ReadOther
    \/ ReadLayer
    \/ ReadX
    \/ ReadY
    \/ ParseReturns

ParseSpec == ParseInit /\ [][ParseNext]_vars

\* the record read last
JustRead(code, value) == pPos > 0 /\ pContent[pPos] = Record(code, value)

\* C18 (as claimed): once an entity-type POLYLINE record is read the parser is
\* in a polyline, not in a vertex, and its vertex list is empty, whatever the
\* records before it were.
C18_PolylineResets ==
    JustRead("0", "POLYLINE") => inPolyline /\ ~inVertex /\ vertices = <<>>

\* what does hold after a POLYLINE record
C18_PolylineOpens ==
    JustRead("0", "POLYLINE") => inPolyline /\ vertices = <<>>

\* The polylines of a content, read entity by entity: a VERTEX entity of an
\* open polyline gives a vertex when it has an X and a Y record of its own; an
\* entity ends where the next entity-type record begins.  out collects, for
\* every polyline closed by SEQEND, the pairs of consecutive vertices whose
\* distance is within 0.01 of a target length.
NoPolyline ==
    [open |-> FALSE, inEntity |-> FALSE, hasX |-> FALSE, x |-> 0, verts |-> <<>>, out |-> <<>>]

IsTarget(length) == \E k \in 1..Len(targetLengths) : Near(length, targetLengths[k])

TargetPairs(vs) ==
    LET Joins(i) == <<vs[i][1], vs[i][2], vs[i + 1][1], vs[i + 1][2]>>
        Keep(i) == IsTarget(distance(vs[i][1], vs[i][2], vs[i + 1][1], vs[i + 1][2]))
        kept == SelectSeq([i \in 1..(Len(vs) - 1) |-> i], Keep)
    IN  [k \in 1..Len(kept) |-> Joins(kept[k])]

AfterRecord(st, rec) ==
    IF rec.code = "0" THEN
        IF rec.value = "POLYLINE"
        THEN [st EXCEPT !.open = TRUE, !.inEntity = FALSE, !.verts = <<>>]
        ELSE IF rec.value = "SEQEND" /\ st.open
        THEN [st EXCEPT !.open = FALSE, !.inEntity = FALSE,
                        !.out = st.out \o TargetPairs(st.verts)]
        ELSE IF rec.value = "VERTEX" /\ st.open
        THEN [st EXCEPT !.inEntity = TRUE, !.hasX = FALSE]
        ELSE [st EXCEPT !.inEntity = FALSE]
    ELSE IF rec.code = "10" /\ st.inEntity /\ IsDecimal(rec.value)
    THEN [st EXCEPT !.hasX = TRUE, !.x = FloatMilli(rec.value)]
    ELSE IF rec.code = "20" /\ st.inEntity /\ st.hasX /\ IsDecimal(rec.value)
    THEN [st EXCEPT !.inEntity = FALSE,
                    !.verts = Append(st.verts, <<st.x, FloatMilli(rec.value)>>)]
    ELSE st

RECURSIVE PolylinesOf(_, _)
PolylinesOf(content, n) ==
    IF n = 0 THEN NoPolyline ELSE AfterRecord(PolylinesOf(content, n - 1), content[n])

EndsOf(segs) ==
    [k \in 1..Len(segs) |-> <<segs[k].X1, segs[k].Y1, segs[k].X2, segs[k].Y2>>]

\* C19 (as claimed): the segments returned so far are, in order, the pairs of
\* consecutive vertices of the polylines closed by SEQEND whose length is
\* within 0.01 of a target length, all of them and nothing else (so a SEQEND
\* outside a polyline adds nothing); after a SEQEND record the parser is
\* neither in a polyline nor in a vertex.
C19_SeqendSegments ==
    /\ EndsOf(segments) = PolylinesOf(pContent, pPos).out
    /\ \A k \in 1..Len(segments) : IsTarget(segments[k].Length)
    /\ JustRead("0", "SEQEND") => ~inPolyline /\ ~inVertex

\* no entity-type record is read while a VERTEX still waits for its Y
NoVertexCutShort ==
    \A i \in 1..pPos : (pContent[i].code = "0" /\ i > 1) =>
        ~(\E j \in 1..(i - 1) :
             /\ pContent[j] = Record("0", "VERTEX")
             /\ \A k \in (j + 1)..(i - 1) : pContent[k].code \notin {"0", "20"}
             /\ PolylinesOf(pContent, j).inEntity)

\* no Y is read in a VERTEX of an open polyline that has had no X
NoYWithoutX ==
    \A i \in 1..pPos : pContent[i].code = "20" =>
        LET before == PolylinesOf(pContent, i - 1)
        IN  before.inEntity => before.hasX

\* what does hold: the claim for contents in which every VERTEX has its X
\* and then its Y
C19_WhenVerticesComplete == (NoVertexCutShort /\ NoYWithoutX) => C19_SeqendSegments

-----------------------------------------------------------------------------
(* Vertex assembly                                                         *)

\* the entity-type record of the entity that record n belongs to
EntityStart(n) ==
    CHOOSE j \in 1..n :
        pContent[j].code = "0" /\ \A k \in (j + 1)..n : pContent[k].code # "0"

\* the X records of that entity before record n
OwnXs(n) ==
    {j \in (EntityStart(n) + 1)..(n - 1) :
        pContent[j].code = "10" /\ IsDecimal(pContent[j].value)}

LastOf(S) == CHOOSE j \in S : \A k \in S : k <= j

\* that entity already has an X followed by a Y before record n
HasEarlierPoint(n) ==
    \E j \in (EntityStart(n) + 1)..(n - 1) :
        pContent[j].code = "20" /\ IsDecimal(pContent[j].value) /\ OwnXs(j) # {}

\* the step that reads record n appends a vertex
AppendsVertex == Len(vertices') > Len(vertices)

\* the vertex comes from the X and the Y of the VERTEX record that n is in,
\* which is in an open polyline and has given no vertex yet
FromOwnVertex(n) ==
    /\ pContent[n].code = "20" /\ IsDecimal(pContent[n].value)
    /\ pContent[EntityStart(n)] = Record("0", "VERTEX")
    /\ inPolyline
    /\ OwnXs(n) # {}
    /\ ~HasEarlierPoint(n)
    /\ vertices' = Append(vertices, <<FloatMilli(pContent[LastOf(OwnXs(n))].value),
                                      FloatMilli(pContent[n].value)>>)

\* C28: a step of the parser appends at most one vertex, and only on the Y
\* (group 20) of a VERTEX record of an open polyline that has its own X
\* (group 10) before that Y and has not contributed a vertex yet; the vertex
\* is that X with that Y. A Y without an X of the same VERTEX and the
\* coordinates of other records append nothing, and the parser is in a
\* vertex only while it is in a polyline.
C28_VertexFromOneRecord ==
    [][/\ AppendsVertex => FromOwnVertex(pPos + 1)
       /\ inVertex' => inPolyline']_vars

\* what does hold: the parser is in a vertex only while in a polyline, a step
\* appends at most one vertex and only on a parsed Y record
C28_VertexOnlyInPolyline ==
    [][/\ inVertex' => inPolyline'
       /\ AppendsVertex =>
             /\ Current.code = "20" /\ IsDecimal(Current.value)
             /\ inPolyline /\ inVertex /\ ~inVertex'
             /\ vertices' = Append(vertices, <<currentX, FloatMilli(Current.value)>>)]_vars

-----------------------------------------------------------------------------
(* The row loop of processErectionMaterialsTable, row by row               *)

\* Rows of a materials table: category headers of one and of four cells, the
\* data row of the scenario, a five-cell data row without its N.S. cell, a
\* data row with an empty first cell, the two total rows, an empty row, a
\* five-cell row with cells only at columns 0, 2 and 4 (0-indexed), a row of
\* six cells with cells at columns 0, 1, 3 and 5, a five-cell row that has
\* its N.S. cell and the text "TOTAL WEIGHT" in its description, and a
\* five-cell row whose last cell is not a weight
MaxRows == 3

MaterialRows ==
    { <<"PIPE">>,
      <<"FITTINGS", "", "", "">>,
      <<"A1", "DescA", "25", "2", "1.5", "">>,
      <<"B1", "DescB", "2.4M", "7.5", "">>,
      <<"", "DescC", "50", "1M">>,
      <<"TOTAL ERECTION WEIGHT", "12.5">>,
      <<"TOTAL WEIGHT", "20">>,
      <<>>,
      <<"C1", "", "80", "", "3">>,
      <<"D1", "DescD", "", "5", "", "REM">>,
      <<"E1", "TOTAL WEIGHT 9", "25", "2", "1.5">>,
      <<"B3", "DescB", "2.4M", "7.5", "x">> }

MaterialTables == UNION {ListsOf(MaterialRows, n) : n \in 0..MaxRows}

MaterialsInit ==
    /\ mtRows \in MaterialTables
    /\ mtVariant \in Variants
    /\ endIdx = EndIdx(mtRows)
    /\ mtPos = 0
    /\ currentCategory = ""
    /\ processedRows = <<>>
    /\ mtPc = "loop"
    /\ matCsv = <<>>
    /\ TableIdle /\ FileIdle /\ PageIdle /\ BatchIdle
    /\ MatchIdle /\ DedupIdle /\ DetectIdle /\ ParseIdle
    /\ CutIdle /\ NearIdle /\ SeqIdle

MaterialsFrame ==
    UNCHANGED <<mtRows, mtVariant, endIdx, matCsv, tableVars, fileVars, pageVars, batchVars, weldVars, cutVars, nearVars,
                seqVars>>

\* the loop over dataRows[:endIdx] is at a row
AtRow == mtPc = "loop" /\ mtPos < endIdx
ThisRow == mtRows[mtPos + 1]

\* if len(row) == 0 { continue }
SkipEmptyRow ==
    /\ AtRow /\ Len(ThisRow) = 0
    /\ mtPos' = mtPos + 1
    /\ UNCHANGED <<currentCategory, processedRows, mtPc>>
    /\ MaterialsFrame

\* isCategory && isTotalRow
AppendTotalRow ==
    /\ AtRow /\ Len(ThisRow) > 0 /\ IsCategoryRow(ThisRow) /\ IsTotalRow(ThisRow)
    /\ processedRows' = Append(processedRows, TotalRow(ThisRow))
    /\ mtPos' = mtPos + 1
    /\ UNCHANGED <<currentCategory, mtPc>>
    /\ MaterialsFrame

\* isCategory && !isTotalRow: currentCategory = row[0]; continue
ReadCategoryHeader ==
    /\ AtRow /\ Len(ThisRow) > 0 /\ IsCategoryRow(ThisRow) /\ ~IsTotalRow(ThisRow)
    /\ currentCategory' = ThisRow[1]
    /\ mtPos' = mtPos + 1
    /\ UNCHANGED <<processedRows, mtPc>>
    /\ MaterialsFrame

\* the else branch: a regular data row
AppendOrdinaryRow ==
    /\ AtRow /\ Len(ThisRow) > 0 /\ ~IsCategoryRow(ThisRow)
    /\ processedRows' = Append(processedRows, OrdinaryRow(ThisRow, currentCategory, mtVariant))
    /\ mtPos' = mtPos + 1
    /\ UNCHANGED <<currentCategory, mtPc>>
    /\ MaterialsFrame

\* return processedRows
MaterialsReturns ==
    /\ mtPc = "loop" /\ mtPos = endIdx
    /\ mtPc' = "returned"
    /\ UNCHANGED <<mtPos, currentCategory, processedRows>>
    /\ MaterialsFrame

\* Headers of the materials file: the category column is at position 5; the
\* nominal size column is named "N.S." or "N.S. (MM)"
MaterialHeaders ==
    { <<"PT NO", "DESCRIPTION", "N.S.", "QTY", "WEIGHT", "CATEGORY">>,
      <<"PT NO", "DESCRIPTION", "N.S. (MM)", "QTY", "WEIGHT", "CATEGORY">> }

\* writeOutputFiles, materials part: writeCSV of header and rows, then
\* fixMissingNSColumns on the written file
WriteOutputFiles ==
    /\ mtPc = "returned" /\ Len(processedRows) > 0
    /\ \E hdr \in MaterialHeaders :
          matCsv' = fixMissingNSColumns(<<hdr>> \o processedRows)
    /\ mtPc' = "written"
    /\ UNCHANGED <<mtRows, mtVariant, endIdx, mtPos, currentCategory, processedRows>>
    /\ UNCHANGED <<tableVars, fileVars, pageVars, batchVars, weldVars, cutVars, nearVars,
                seqVars>>

MaterialsNext ==
    \/ SkipEmptyRow
    \/ AppendTotalRow
    \/ ReadCategoryHeader
    \/ AppendOrdinaryRow
    \/ MaterialsReturns
    \/ WriteOutputFiles

MaterialsSpec == MaterialsInit /\ [][MaterialsNext]_vars

\* the row at position i of the input is a category header
IsHeaderAt(i) ==
    Len(mtRows[i]) > 0 /\ IsCategoryRow(mtRows[i]) /\ ~IsTotalRow(mtRows[i])

\* the positions handled so far whose rows are emitted
EmittedPositions == {i \in 1..mtPos : Len(mtRows[i]) > 0 /\ ~IsHeaderAt(i)}

\* the position of the input row that the k-th emitted row comes from
SourceOf(k) ==
    CHOOSE i \in EmittedPositions : Cardinality({j \in EmittedPositions : j <= i}) = k

\* the first cell of the closest category header before position i
CategoryBefore(i) ==
    IF \E j \in 1..(i - 1) : IsHeaderAt(j)
    THEN mtRows[CHOOSE j \in 1..(i - 1) :
                    IsHeaderAt(j) /\ \A m \in (j + 1)..(i - 1) : ~IsHeaderAt(m)][1]
    ELSE ""

ScenarioRow == <<"A1", "DescA", "25", "2", "1.5", "">>

\* C20: the rows emitted so far are, in order, the handled rows that are
\* neither empty nor category headers (no category header row is emitted);
\* every emitted ordinary row has at index 5 (0-indexed) the first cell of the
\* closest category header row before it, the empty string when there is none;
\* the rows ["PIPE"], ["A1","DescA","25","2","1.5",""] give exactly
\* ["A1","DescA","25","2","1.5","PIPE"].
C20_CategoryStamping ==
    /\ Len(processedRows) = Cardinality(EmittedPositions)
    /\ \A k \in 1..Len(processedRows) :
          ~IsTotalRow(mtRows[SourceOf(k)]) =>
              /\ Len(processedRows[k]) >= 6
              /\ processedRows[k][6] = CategoryBefore(SourceOf(k))
              /\ processedRows[k][1] = mtRows[SourceOf(k)][1]
    /\ (mtPc = "returned" /\ mtRows = << <<"PIPE">>, ScenarioRow >>) =>
          processedRows = << <<"A1", "DescA", "25", "2", "1.5", "PIPE">> >>
    /\ mtPc = "returned" =>
          processedRows = processErectionMaterialsTable(mtRows, mtVariant)

\* the loop has returned after two category headers and an ordinary row
\* stamped with the second of them
C20_Witness ==
    /\ mtPc = "returned"
    /\ Len(processedRows) < mtPos
    /\ \E k \in 1..Len(processedRows) :
          /\ ~IsTotalRow(mtRows[SourceOf(k)])
          /\ processedRows[k][6] # ""
          /\ \E j \in 1..(SourceOf(k) - 1) :
                IsHeaderAt(j) /\ mtRows[j][1] # processedRows[k][6]


-----------------------------------------------------------------------------
(* Classification of a row as category header                              *)

\* the loop is at a row with a first cell that is not a total label
AtLabelledRow ==
    /\ AtRow /\ Len(ThisRow) > 0
    /\ ThisRow[1] # ""
    /\ ThisRow[1] \notin {"TOTAL ERECTION WEIGHT", "TOTAL WEIGHT"}

\* the step handles the row as a category header: it becomes the current
\* category and nothing is emitted
TreatedAsHeader ==
    /\ currentCategory' = ThisRow[1]
    /\ processedRows' = processedRows
    /\ mtPos' = mtPos + 1

\* C21 as stated: a row whose first cell is non-empty and is not a total label
\* is treated as a category header exactly when its cells at 0-indexed
\* columns 2 and 4 are both empty or absent.
C21_HeaderByColumns2And4 ==
    [][AtLabelledRow =>
          (TreatedAsHeader <=> (CellOr(ThisRow, 3) = "" /\ CellOr(ThisRow, 5) = ""))]_vars

\* C21, amended: such a row is treated as a category header exactly when its
\* cells at 0-indexed columns 1 and 3 are both empty or absent.
C21_HeaderByColumns1And3 ==
    [][AtLabelledRow =>
          (TreatedAsHeader <=> (CellOr(ThisRow, 2) = "" /\ CellOr(ThisRow, 4) = ""))]_vars

\* the loop has returned after it took a row with cells at columns 2 and 4
\* as the category header and emitted a row whose columns 2 and 4 are empty
C21_Witness ==
    /\ mtPc = "returned"
    /\ \E i \in 1..mtPos :
          /\ Len(mtRows[i]) > 4 /\ mtRows[i][3] # "" /\ mtRows[i][5] # ""
          /\ IsHeaderAt(i)
          /\ currentCategory = mtRows[i][1]
    /\ \E k \in 1..Len(processedRows) :
          LET row == mtRows[SourceOf(k)]
          IN  /\ row[1] # "" /\ ~IsTotalRow(row)
              /\ CellOr(row, 3) = "" /\ CellOr(row, 5) = ""
              /\ processedRows[k][1] = row[1]


-----------------------------------------------------------------------------
(* Truncation at the first "TOTAL WEIGHT" row                              *)

\* the rows of the input with a cell that contains "TOTAL WEIGHT", the cell
\* being compared in upper case as the loop at the top of the function does
TotalWeightPositions ==
    {i \in 1..Len(mtRows) :
        \E c \in 1..Len(mtRows[i]) : Contains(ToUpper(mtRows[i][c]), "TOTAL WEIGHT")}

FirstTotalWeight ==
    CHOOSE i \in TotalWeightPositions : \A j \in TotalWeightPositions : i <= j

TotalLabels == {"TOTAL ERECTION WEIGHT", "TOTAL WEIGHT"}

\* the row emitted for a total row: columns 0-3 empty, the weight value
\* (second cell of the input row) at column 4, the label at column 5
ReshapedTotal(row) == <<"", "", "", "", CellOr(row, 2), row[1]>>

\* C22: no emitted row derives from an input row after the first row that has
\* a cell containing "TOTAL WEIGHT"; the loop handles that row itself before
\* it returns; and a row whose first cell is a total label, that first row
\* included, is emitted with columns 0-3 empty, the weight value at column 4
\* and the label at column 5.
C22_Truncation ==
    /\ Len(processedRows) = Cardinality(EmittedPositions)
    /\ \A k \in 1..Len(processedRows) :
          LET row == mtRows[SourceOf(k)]
          IN  /\ TotalWeightPositions # {} => SourceOf(k) <= FirstTotalWeight
              /\ row[1] \in TotalLabels => processedRows[k] = ReshapedTotal(row)
              /\ row[1] \notin TotalLabels => processedRows[k][1] = row[1]
    /\ (mtPc = "returned" /\ TotalWeightPositions # {}) =>
          /\ mtPos = FirstTotalWeight
          /\ LET row == mtRows[FirstTotalWeight]
             IN  (Len(row) > 0 /\ row[1] \in TotalLabels) =>
                    /\ Len(processedRows) > 0
                    /\ processedRows[Len(processedRows)] = ReshapedTotal(row)

\* the loop has returned from a table that has rows after its "TOTAL WEIGHT"
\* row, with that row emitted last after another emitted row
C22_Witness ==
    /\ mtPc = "returned"
    /\ TotalWeightPositions # {}
    /\ FirstTotalWeight < Len(mtRows)
    /\ Len(mtRows[Len(mtRows)]) > 0
    /\ mtRows[FirstTotalWeight][1] = "TOTAL WEIGHT"
    /\ Len(processedRows) = 2
    /\ processedRows[2] = <<"", "", "", "", "20", "TOTAL WEIGHT">>


-----------------------------------------------------------------------------
(* The missing-N.S. repair                                                 *)

WithoutM(cell) == TrimSuffix(cell, "M")

\* cells 0-4 of an emitted row hold the cells of the input row in place,
\* the quantity without its unit
KeptInPlace(row, out) ==
    /\ Len(out) >= 5
    /\ out[1] = row[1]
    /\ out[2] = CellOr(row, 2)
    /\ out[3] = CellOr(row, 3)
    /\ out[4] = WithoutM(CellOr(row, 4))
    /\ out[5] = CellOr(row, 5)

\* cell 0 and cell 1 kept, an empty N.S. at column 2, the old cell 2 without
\* its trailing "M" at column 3 and the old cell 3 at column 4
RightShifted(row, out) ==
    /\ Len(out) >= 5
    /\ out[1] = row[1]
    /\ out[2] = CellOr(row, 2)
    /\ out[3] = ""
    /\ out[4] = WithoutM(CellOr(row, 3))
    /\ out[5] = CellOr(row, 4)

\* exactly 5 cells, cell 4 a valid weight, cell 2 like a quantity
MayBeShifted(row) ==
    /\ Len(row) = 5
    /\ IsValidWeight(TrimSpace(row[5]))
    /\ IsLikelyQty(TrimSpace(row[3]))

RepairedAsClaimed(row, out) ==
    /\ KeptInPlace(row, out) \/ RightShifted(row, out)
    /\ ~KeptInPlace(row, out) => MayBeShifted(row)

\* the rows emitted for ordinary (non-total) input rows
OrdinaryEmitted == {k \in 1..Len(processedRows) : mtRows[SourceOf(k)][1] \notin TotalLabels}

\* C23: an ordinary row is right-shifted only if it has exactly 5 cells, cell 4
\* is a valid weight and cell 2 looks like a quantity; the shifted row keeps
\* cell 0 and cell 1, has an empty N.S. at column 2, the old cell 2 without
\* trailing "M" at column 3 and the old cell 3 at column 4; rows of any other
\* length are never shifted. Stated of the rows the row loop emits and of the
\* rows of the materials file after its repair.
C23_RepairOnlyFiveCells ==
    /\ Len(processedRows) = Cardinality(EmittedPositions)
    /\ \A k \in OrdinaryEmitted :
          /\ RepairedAsClaimed(mtRows[SourceOf(k)], processedRows[k])
          /\ mtPc = "written" => RepairedAsClaimed(mtRows[SourceOf(k)], matCsv[k + 1])

\* the same of the rows that the row loop of processErectionMaterialsTable
\* emits, before the file is written
C23_RepairInRowLoop ==
    /\ Len(processedRows) = Cardinality(EmittedPositions)
    /\ \A k \in OrdinaryEmitted :
          RepairedAsClaimed(mtRows[SourceOf(k)], processedRows[k])

\* the row loop has shifted a five-cell row
C23_ShiftedInRowLoop ==
    \E k \in OrdinaryEmitted :
        /\ ~KeptInPlace(mtRows[SourceOf(k)], processedRows[k])
        /\ RightShifted(mtRows[SourceOf(k)], processedRows[k])


-----------------------------------------------------------------------------
(* Category stamping and the cells of the row                              *)

\* a header of six columns, as extractTable has it before CATEGORY is inserted
SixColumnHeader == <<"PT NO", "DESCRIPTION", "N.S.", "QTY", "WEIGHT", "REMARKS">>

\* where the header cell of column c is after CATEGORY has been inserted
ColumnAfterInsert(c) ==
    CHOOSE d \in 1..Len(InsertCategory(SixColumnHeader)) :
        InsertCategory(SixColumnHeader)[d] = SixColumnHeader[c]

\* the emitted rows of ordinary input rows with 6 or more cells
WideOrdinaryEmitted == {k \in OrdinaryEmitted : Len(mtRows[SourceOf(k)]) >= 6}

\* C29: for every ordinary materials row with 6 or more cells, each original
\* (non-empty) cell is still present in the emitted row, the quantity possibly
\* without its unit, and it sits under the header cell of its original column
\* after CATEGORY has been inserted at header position 5.
C29_CellsPreserved ==
    /\ Len(processedRows) = Cardinality(EmittedPositions)
    /\ \A k \in WideOrdinaryEmitted :
          LET row == mtRows[SourceOf(k)]
              out == processedRows[k]
          IN  \A c \in 1..Len(row) :
                 row[c] # "" =>
                    /\ \E d \in 1..Len(out) : out[d] \in {row[c], WithoutM(row[c])}
                    /\ c <= Len(SixColumnHeader) =>
                          CellOr(out, ColumnAfterInsert(c)) \in {row[c], WithoutM(row[c])}


-----------------------------------------------------------------------------
(* validateAndCorrectCutLengthRow on rows of cut-length cells              *)

\* Cells of a cut-length row: two piece numbers, a whole and a decimal
\* number, a number with blanks around it, a remark and an empty cell
MaxCells == 4

CutCells == {"<5>", "<12>", "120", "2.4", " 50 ", "OK", ""}

\* a row of nine cells without a piece number, and a row of three pieces
LongCutRows ==
    { <<"120", "OK", "", "2.4", "X", "7", "", "Y", "9">>,
      <<"<5>", "120", "<12>", "OK", "2.4", "<7>", "50", "60", "70">> }

CutLengthRows == UNION {ListsOf(CutCells, n) : n \in 0..MaxCells} \cup LongCutRows

CutInit ==
    /\ cutRow \in CutLengthRows
    /\ cutPc = "call"
    /\ cutCorrected = <<>>
    /\ TableIdle /\ FileIdle /\ PageIdle /\ BatchIdle
    /\ MatchIdle /\ DedupIdle /\ DetectIdle /\ ParseIdle /\ MaterialsIdle
    /\ NearIdle /\ SeqIdle

CutFrame ==
    UNCHANGED <<cutRow, tableVars, fileVars, pageVars, batchVars, weldVars, materialsVars,
                nearVars, seqVars>>

\* if len(row) == 0 { return row }
ReturnEmptyRow ==
    /\ cutPc = "call" /\ Len(cutRow) = 0
    /\ cutCorrected' = validateAndCorrectCutLengthRow(cutRow, "bom")
    /\ cutPc' = "returned"
    /\ CutFrame

\* if len(pieces) == 0: the first 8 cells of the row in the 8-column template
ReturnWithoutPieces ==
    /\ cutPc = "call" /\ Len(cutRow) > 0 /\ Len(PieceIndexes(cutRow)) = 0
    /\ cutCorrected' = validateAndCorrectCutLengthRow(cutRow, "bom")
    /\ cutPc' = "returned"
    /\ CutFrame

\* the piece groups are built and the template is filled
ReturnCorrected ==
    /\ cutPc = "call" /\ Len(cutRow) > 0 /\ Len(PieceIndexes(cutRow)) > 0
    /\ cutCorrected' = validateAndCorrectCutLengthRow(cutRow, "bom")
    /\ cutPc' = "returned"
    /\ CutFrame

CutNext == ReturnEmptyRow \/ ReturnWithoutPieces \/ ReturnCorrected

CutSpec == CutInit /\ [][CutNext]_vars

\* positions of the cells that are piece numbers
PiecePositions == {i \in 1..Len(cutRow) : isPieceNumber(TrimSpace(cutRow[i]))}

\* the position of the k-th piece number, k = 0, 1, ...
PieceAt(k) == CHOOSE i \in PiecePositions : Cardinality({j \in PiecePositions : j < i}) = k

\* the positions between the k-th piece and the next piece or the row end
AfterPiece(k) ==
    {i \in (PieceAt(k) + 1)..Len(cutRow) : \A j \in PiecePositions : j > PieceAt(k) => i < j}

NumbersAfter(k) == {i \in AfterPiece(k) : isNumber(TrimSpace(cutRow[i]))}

RemarksAfter(k) ==
    {i \in AfterPiece(k) :
        /\ TrimSpace(cutRow[i]) # ""
        /\ ~isNumber(TrimSpace(cutRow[i]))
        /\ ~isPieceNumber(TrimSpace(cutRow[i]))}

\* the trimmed cell at the n-th position of S in row order, "" when S has
\* fewer positions
NthCell(S, n) ==
    IF Cardinality(S) >= n
    THEN TrimSpace(cutRow[CHOOSE i \in S : Cardinality({j \in S : j < i}) = n - 1])
    ELSE ""

\* C24: for every non-empty row the returned row has exactly 8 cells; for the
\* k-th piece number (k = 0, 1) the piece is at column 4k, the first two
\* numeric cells between it and the next piece (or the row end) are at
\* columns 4k+1 and 4k+2 and the first remark is at column 4k+3, the columns
\* without such a cell being empty; a row without a piece number is returned
\* as its first 8 cells padded with empty strings; ["<5>","120","OK"] gives
\* ["<5>","120","","OK","","","",""].
C24_CutLengthRow ==
    (cutPc = "returned" /\ Len(cutRow) > 0) =>
        /\ Len(cutCorrected) = 8
        /\ PiecePositions = {} => \A i \in 1..8 : cutCorrected[i] = CellOr(cutRow, i)
        /\ PiecePositions # {} =>
              \A k \in 0..1 :
                 IF Cardinality(PiecePositions) > k
                 THEN /\ cutCorrected[4 * k + 1] = TrimSpace(cutRow[PieceAt(k)])
                      /\ cutCorrected[4 * k + 2] = NthCell(NumbersAfter(k), 1)
                      /\ cutCorrected[4 * k + 3] = NthCell(NumbersAfter(k), 2)
                      /\ cutCorrected[4 * k + 4] = NthCell(RemarksAfter(k), 1)
                 ELSE \A c \in 1..4 : cutCorrected[4 * k + c] = ""
        /\ cutRow = <<"<5>", "120", "OK">> =>
              cutCorrected = <<"<5>", "120", "", "OK", "", "", "", "">>

\* the call has returned the row of three pieces: two groups are filled, the
\* second with a remark and one number, and the third piece is left out
C24_Witness ==
    /\ cutPc = "returned"
    /\ Cardinality(PiecePositions) = 3
    /\ cutCorrected = <<"<5>", "120", "", "", "<12>", "2.4", "", "OK">>


-----------------------------------------------------------------------------
(* SpatialAnalyzer.FindEntitiesNearText                                    *)

\* containsText: both strings non-empty, compared in lower case
containsText(content, text) ==
    Len(content) > 0 /\ Len(text) > 0 /\ Contains(ToLower(content), ToLower(text))

\* Distance is math.Sqrt(dx*dx + dy*dy).  The square root is strictly
\* increasing, so the model keeps the square of the distance: two distances
\* compare as their squares do, and for maxDistance >= 0 a distance is
\* <= maxDistance exactly when its square is <= maxDistance squared.
SquaredDistance(x1, y1, x2, y2) == (x2 - x1) * (x2 - x1) + (y2 - y1) * (y2 - y1)

\* distance <= maxDistance
WithinDistance(squared, dist) == dist >= 0 /\ squared <= dist * dist

EntityWithDistance(e, squared) == [Entity |-> e, Distance |-> squared]

\* an inner loop that does not look at seen
NearUnseenOrSeen(ents, ref, done, dist) ==
    LET InRange(i) == WithinDistance(SquaredDistance(ref.X, ref.Y, ents[i].X, ents[i].Y), dist)
    IN  SelectSeq([i \in 1..Len(ents) |-> i], InRange)

\* the inner loop for one reference entity: the indexes, in list order, of
\* the entities not seen yet that are within maxDistance of it
NearUnseen(ents, ref, done, dist) ==
    LET InRange(i) ==
            /\ i \notin done
            /\ WithinDistance(SquaredDistance(ref.X, ref.Y, ents[i].X, ents[i].Y), dist)
    IN  SelectSeq([i \in 1..Len(ents) |-> i], InRange)

\* sort.Slice by Distance; slices of fewer than 12 elements are sorted by
\* insertion, which keeps equal distances in their order
RECURSIVE InsertByDistance(_, _)
InsertByDistance(sorted, r) ==
    IF Len(sorted) = 0 THEN <<r>>
    ELSE IF r.Distance < sorted[Len(sorted)].Distance
         THEN Append(InsertByDistance(SubSeq(sorted, 1, Len(sorted) - 1), r),
                     sorted[Len(sorted)])
         ELSE Append(sorted, r)

RECURSIVE SortByDistance(_)
SortByDistance(list) ==
    IF Len(list) = 0 THEN <<>>
    ELSE InsertByDistance(SortByDistance(SubSeq(list, 1, Len(list) - 1)), list[Len(list)])

\* The entities of TestFindEntitiesNearText and a lower-case match next to
\* the flange
MaxNear == 4

NearEntities ==
    { Entity("PIPE", 0, 0), Entity("VALVE", 5, 0), Entity("FLANGE", 100, 100),
      Entity("PIPE_2", 2, 2), Entity("pipe run", 100, 95) }

\* the calls: search text and maxDistance
NearCalls ==
    { <<"PIPE", 10>>, <<"PIPE", 5>>, <<"valve", 10>>, <<"", 10>>, <<"pipe", 0 - 1>>,
      <<"Pipe", 0>> }

NearInit ==
    /\ nEntities \in UNION {ListsOf(NearEntities, n) : n \in 0..MaxNear}
    /\ \E call \in NearCalls : searchText = call[1] /\ maxDistance = call[2]
    /\ referenceEntities = <<>> /\ nRef = 0 /\ seen = {} /\ nResult = <<>>
    /\ nPc = "call"
    /\ TableIdle /\ FileIdle /\ PageIdle /\ BatchIdle
    /\ MatchIdle /\ DedupIdle /\ DetectIdle /\ ParseIdle /\ MaterialsIdle
    /\ CutIdle /\ SeqIdle

NearFrame ==
    UNCHANGED <<nEntities, searchText, maxDistance, tableVars, fileVars, pageVars, batchVars,
                weldVars, materialsVars, cutVars, seqVars>>

\* the first loop: the entities that contain the search text
CollectReferences ==
    /\ nPc = "call"
    /\ referenceEntities' =
          LET Matches(e) == containsText(e.Content, searchText)
          IN  SelectSeq(nEntities, Matches)
    /\ nPc' = "loop"
    /\ UNCHANGED <<nRef, seen, nResult>>
    /\ NearFrame

\* if len(referenceEntities) == 0 { return result }
ReturnNoReference ==
    /\ nPc = "loop" /\ Len(referenceEntities) = 0
    /\ nPc' = "returned"
    /\ UNCHANGED <<referenceEntities, nRef, seen, nResult>>
    /\ NearFrame

\* one pass of the outer loop: the inner loop for the next reference entity
ScanReference ==
    /\ nPc = "loop" /\ nRef < Len(referenceEntities)
    /\ LET ref == referenceEntities[nRef + 1]
           found == NearUnseen(nEntities, ref, seen, maxDistance)
       IN  /\ nResult' = nResult \o
                 [k \in 1..Len(found) |->
                     EntityWithDistance(nEntities[found[k]],
                         SquaredDistance(ref.X, ref.Y, nEntities[found[k]].X,
                                         nEntities[found[k]].Y))]
           /\ seen' = seen \cup {found[k] : k \in 1..Len(found)}
    /\ nRef' = nRef + 1
    /\ UNCHANGED <<referenceEntities, nPc>>
    /\ NearFrame

\* sort.Slice(result, ...); return result
SortAndReturn ==
    /\ nPc = "loop" /\ Len(referenceEntities) > 0 /\ nRef = Len(referenceEntities)
    /\ nResult' = SortByDistance(nResult)
    /\ nPc' = "returned"
    /\ UNCHANGED <<referenceEntities, nRef, seen>>
    /\ NearFrame

NearNext == CollectReferences \/ ReturnNoReference \/ ScanReference \/ SortAndReturn

NearSpec == NearInit /\ [][NearNext]_vars

\* the entity at index i contains the text, case-insensitively
MatchesText(i) ==
    /\ searchText # ""
    /\ \E a \in 1..(Len(nEntities[i].Content) - Len(searchText) + 1) :
          ToLower(SubSeq(nEntities[i].Content, a, a + Len(searchText) - 1))
             = ToLower(searchText)

\* the entity at index i lies within maxDistance of a matching entity
NearAMatch(i) ==
    \E j \in 1..Len(nEntities) :
        /\ MatchesText(j)
        /\ maxDistance >= 0
        /\ SquaredDistance(nEntities[i].X, nEntities[i].Y, nEntities[j].X, nEntities[j].Y)
              <= maxDistance * maxDistance

TimesReturned(e) == Cardinality({k \in 1..Len(nResult) : nResult[k].Entity = e})

\* C26: the call returns each entity at most once and exactly the entities
\* within maxDistance of at least one entity whose content contains the text
\* case-insensitively, the matching entities included and all others left
\* out: an entity value is in the result as many times as the list has
\* entities of that value near a match.  Every reported distance is the
\* distance to a matching entity and at most maxDistance, and the result is
\* ordered by non-decreasing reported distance.
C26_NearText ==
    nPc = "returned" =>
        /\ Len(nResult) = Cardinality({i \in 1..Len(nEntities) : NearAMatch(i)})
        /\ \A e \in NearEntities :
              TimesReturned(e) =
                 Cardinality({i \in 1..Len(nEntities) : nEntities[i] = e /\ NearAMatch(i)})
        /\ \A k \in 1..Len(nResult) :
              \E j \in 1..Len(nEntities) :
                 /\ MatchesText(j)
                 /\ nResult[k].Distance =
                       SquaredDistance(nEntities[j].X, nEntities[j].Y,
                                       nResult[k].Entity.X, nResult[k].Entity.Y)
                 /\ nResult[k].Distance <= maxDistance * maxDistance
        /\ \A k \in 1..(Len(nResult) - 1) : nResult[k].Distance <= nResult[k + 1].Distance

\* the call of the test has returned: PIPE, PIPE_2 and VALVE in this order of
\* distance and no FLANGE, with PIPE_2 near both matching entities
C26_Witness ==
    /\ nPc = "returned"
    /\ nEntities = <<Entity("PIPE", 0, 0), Entity("VALVE", 5, 0), Entity("FLANGE", 100, 100),
                     Entity("PIPE_2", 2, 2)>>
    /\ searchText = "PIPE" /\ maxDistance = 10
    /\ Len(referenceEntities) = 2
    /\ nResult = <<EntityWithDistance(Entity("PIPE", 0, 0), 0),
                   EntityWithDistance(Entity("PIPE_2", 2, 2), 8),
                   EntityWithDistance(Entity("VALVE", 5, 0), 25)>>


-----------------------------------------------------------------------------
(* parseSequential: the text entities of a drawing file                    *)

IsHexDigit(c) == IsDigit(c) \/ c \in CharsOf("ABCDEFabcdef")

\* string(rune(codePoint)) for the code points that occur in the texts below
RuneOfHex(hex) ==
    CASE hex = "0041" -> "A"
      [] hex = "0062" -> "b"
      [] OTHER -> "?"

\* decodeUnicode: every \U+xxxx with four hex digits becomes its character
RECURSIVE decodeUnicode(_)
decodeUnicode(text) ==
    IF Len(text) = 0 THEN text
    ELSE IF /\ Len(text) >= 7
            /\ SubSeq(text, 1, 3) = "\\U+"
            /\ \A i \in 4..7 : IsHexDigit(Ch(text, i))
         THEN RuneOfHex(SubSeq(text, 4, 7)) \o decodeUnicode(SubSeq(text, 8, Len(text)))
         ELSE Ch(text, 1) \o decodeUnicode(SubSeq(text, 2, Len(text)))

\* Entities of a file as lines, group code and value in turn: a TEXT with
\* layer, point, height and content; an MTEXT with a group 3 and a group 1
\* value; a TEXT without content; a TEXT whose content is "TEXT" after a
\* \U+0041; a LINE on a layer named TEXT; a DIMENSION on a layer named TEXT
\* with a group 1 value; an ATTRIB with a group 1 value on another layer whose
\* group 2 value is "MTEXT"; the EOF marker
MaxSeqEntities == 3

SeqEntities ==
    { <<"0", "TEXT", "8", "L1", "10", "1.5", "20", "2", "40", "0.5", "1", "abc">>,
      <<"0", "MTEXT", "3", "ab", "1", "cd">>,
      <<"0", "TEXT", "8", "L1", "10", "x">>,
      <<"0", "TEXT", "1", "\\U+0041", "3", "TEXT">>,
      <<"0", "LINE", "8", "TEXT", "10", "0", "20", "0">>,
      <<"0", "DIMENSION", "8", "TEXT", "1", "dim">>,
      <<"0", "ATTRIB", "8", "L2", "1", "att", "2", "MTEXT">>,
      <<"0", "EOF">> }

SeqFiles == {Flatten(l) : l \in UNION {ListsOf(SeqEntities, n) : n \in 0..MaxSeqEntities}}

SeqInit ==
    /\ sLines \in SeqFiles
    /\ sPos = 0
    /\ sEntities = <<>>
    /\ currentEntity = EmptyTextEntity
    /\ inTextEntity = FALSE
    /\ expectingValue = FALSE
    /\ lastGroupCode = ""
    /\ sPc = "scan"
    /\ TableIdle /\ FileIdle /\ PageIdle /\ BatchIdle
    /\ MatchIdle /\ DedupIdle /\ DetectIdle /\ ParseIdle /\ MaterialsIdle
    /\ CutIdle /\ NearIdle

SeqFrame ==
    UNCHANGED <<sLines, tableVars, fileVars, pageVars, batchVars, weldVars, materialsVars,
                cutVars, nearVars>>

\* scanner.Scan() has delivered a line
LineScanned == sPc = "scan" /\ sPos < Len(sLines)
ThisLine == sLines[sPos + 1]

\* entities with the current entity appended when it is a text with content
WithCurrent ==
    IF inTextEntity /\ currentEntity.Content # ""
    THEN Append(sEntities, currentEntity) ELSE sEntities

\* a group code line "0": the entity so far is closed and a new one starts
ReadEntityStart ==
    /\ LineScanned /\ ~expectingValue /\ ThisLine = "0"
    /\ sEntities' = WithCurrent
    /\ currentEntity' = EmptyTextEntity
    /\ inTextEntity' = FALSE
    /\ expectingValue' = TRUE
    /\ sPos' = sPos + 1
    /\ UNCHANGED <<lastGroupCode, sPc>>
    /\ SeqFrame

\* any other group code line: it is kept only inside a text entity
ReadGroupCode ==
    /\ LineScanned /\ ~expectingValue /\ ThisLine # "0"
    /\ lastGroupCode' = IF inTextEntity THEN ThisLine ELSE lastGroupCode
    /\ expectingValue' = TRUE
    /\ sPos' = sPos + 1
    /\ UNCHANGED <<sEntities, currentEntity, inTextEntity, sPc>>
    /\ SeqFrame

\* a value line TEXT or MTEXT while lastGroupCode is empty
ReadTextType ==
    /\ LineScanned /\ expectingValue
    /\ lastGroupCode = "" /\ ThisLine \in {"TEXT", "MTEXT"}
    /\ inTextEntity' = TRUE
    /\ currentEntity' = [currentEntity EXCEPT !.EntityType = ThisLine]
    /\ expectingValue' = FALSE
    /\ lastGroupCode' = ""
    /\ sPos' = sPos + 1
    /\ UNCHANGED <<sEntities, sPc>>
    /\ SeqFrame

\* the switch on lastGroupCode inside a text entity
WithValue(entity, code, line) ==
    CASE code \in {"1", "3"} -> [entity EXCEPT !.Content = entity.Content \o decodeUnicode(line)]
      [] code = "8" -> [entity EXCEPT !.Layer = line]
      [] code = "10" /\ IsDecimal(line) -> [entity EXCEPT !.X = FloatMilli(line)]
      [] code = "20" /\ IsDecimal(line) -> [entity EXCEPT !.Y = FloatMilli(line)]
      [] code = "40" /\ IsDecimal(line) -> [entity EXCEPT !.Height = FloatMilli(line)]
      [] OTHER -> entity

\* any other value line
ReadValue ==
    /\ LineScanned /\ expectingValue
    /\ ~(lastGroupCode = "" /\ ThisLine \in {"TEXT", "MTEXT"})
    /\ currentEntity' = IF inTextEntity
                        THEN WithValue(currentEntity, lastGroupCode, ThisLine)
                        ELSE currentEntity
    /\ expectingValue' = FALSE
    /\ lastGroupCode' = ""
    /\ sPos' = sPos + 1
    /\ UNCHANGED <<sEntities, inTextEntity, sPc>>
    /\ SeqFrame

\* the end of the file: the last entity is added, entities is returned
SeqReturns ==
    /\ sPc = "scan" /\ sPos = Len(sLines)
    /\ sEntities' = WithCurrent
    /\ sPc' = "returned"
    /\ UNCHANGED <<sPos, currentEntity, inTextEntity, expectingValue, lastGroupCode>>
    /\ SeqFrame

SeqNext ==
    \/ ReadEntityStart
    \/ ReadGroupCode
    \/ ReadTextType
    \/ ReadValue
    \/ SeqReturns

SeqSpec == SeqInit /\ [][SeqNext]_vars

\* The file as pairs of group code and value, and its entities: an entity
\* goes from a pair with code 0 to the pair before the next one
PairCount == Len(sLines) \div 2
CodeOf(i) == sLines[2 * i - 1]
ValueOf(i) == sLines[2 * i]
EntityStarts == {i \in 1..PairCount : CodeOf(i) = "0"}
EntityEnd(i) ==
    IF \E j \in EntityStarts : j > i
    THEN (CHOOSE j \in EntityStarts : j > i /\ \A m \in EntityStarts : m > i => j <= m) - 1
    ELSE PairCount

\* the group 1 and group 3 values of pairs a..b, decoded, in stream order
RECURSIVE ContentOf(_, _)
ContentOf(a, b) ==
    IF a > b THEN ""
    ELSE (IF CodeOf(a) \in {"1", "3"} THEN decodeUnicode(ValueOf(a)) ELSE "")
         \o ContentOf(a + 1, b)

\* the entities that are fragments: type TEXT or MTEXT and a content
IsFragment(i) ==
    /\ ValueOf(i) \in {"TEXT", "MTEXT"}
    /\ ContentOf(i + 1, EntityEnd(i)) # ""

RECURSIVE FragmentsFrom(_)
FragmentsFrom(i) ==
    IF i > PairCount THEN <<>>
    ELSE (IF i \in EntityStarts /\ IsFragment(i)
          THEN <<[kind |-> ValueOf(i), content |-> ContentOf(i + 1, EntityEnd(i))]>>
          ELSE <<>>)
         \o FragmentsFrom(i + 1)

Emitted == [k \in 1..Len(sEntities) |->
              [kind |-> sEntities[k].EntityType, content |-> sEntities[k].Content]]

\* C27: the fragments returned by parseSequential are, in stream order, the
\* entities whose group-0 value is TEXT or MTEXT and whose content is not
\* empty, the content being the concatenation of the entity's group 1 and
\* group 3 values; a value TEXT or MTEXT under another group code starts no
\* fragment.
C27_TextFragments ==
    sPc = "returned" => Emitted = FragmentsFrom(1)

\* no value under a group code other than 0 is TEXT or MTEXT outside a text
\* entity
NoTextValueElsewhere ==
    \A i \in 1..PairCount :
        (CodeOf(i) # "0" /\ ValueOf(i) \in {"TEXT", "MTEXT"}) =>
            \E j \in EntityStarts :
                j < i /\ i <= EntityEnd(j) /\ ValueOf(j) \in {"TEXT", "MTEXT"}

\* what does hold: the claim for such files
C27_WhenTypesOnlyUnderZero == NoTextValueElsewhere => C27_TextFragments

\* a file with text entities and other entities has been read as claimed
C27_ReadAsClaimed ==
    /\ sPc = "returned"
    /\ NoTextValueElsewhere
    /\ Len(sEntities) = 2
    /\ Cardinality(EntityStarts) = 3
    /\ \E k \in 1..2 : sEntities[k].Content = "abcd"

-----------------------------------------------------------------------------
(* Weld count and segment order                                            *)

\* the symbols of the pairs (i, j), i < j, in the order of the two loops
RECURSIVE PairSymbols(_, _, _)
PairSymbols(segs, i, j) ==
    IF i >= Len(segs) THEN <<>>
    ELSE IF j > Len(segs) THEN PairSymbols(segs, i + 1, i + 2)
    ELSE LET o == PairOutcome(segs[i], segs[j])
         IN  (IF o.kind = "weld" THEN <<o.symbol>> ELSE <<>>)
                 \o PairSymbols(segs, i, j + 1)

\* detectWeldSymbols as a function of the segment list
detectWeldSymbols(segs) ==
    IF Len(segs) = 0 THEN <<>>
    ELSE removeDuplicateSymbols(PairSymbols(segs, 1, 2))

\* the run of the loops returns what the function gives
DetectReturnsFunction == dPc = "returned" => dResult = detectWeldSymbols(dSegments)

\* C30: the number of weld symbols detectWeldSymbols returns for a segment
\* list is the number it returns for every other ordering of the same
\* segs.
C30_CountIndependentOfOrder ==
    dPc = "returned" =>
        \A other \in Orderings(dSegments) :
            Len(detectWeldSymbols(other)) = Len(dResult)

\* what does hold: the number of crossings accepted before duplicates are
\* removed is the same for every ordering, and so is the number returned
\* when at most two crossings are accepted
C30_AcceptedIndependentOfOrder ==
    dPc = "returned" =>
        \A other \in Orderings(dSegments) :
            /\ Len(PairSymbols(other, 1, 2)) = Len(weldSymbols)
            /\ Len(weldSymbols) <= 2 => Len(detectWeldSymbols(other)) = Len(dResult)

\* the row of three crossings read in the given order returns two symbols
C30_RowInGivenOrder ==
    /\ dPc = "returned" /\ dSegments = WeldRow
    /\ Len(weldSymbols) = 3 /\ Len(dResult) = 2

\* the same row with the two crossing strokes of the first stroke exchanged
\* returns one symbol
C30_RowReordered ==
    /\ dPc = "returned"
    /\ dSegments = <<WeldRow[1], WeldRow[3], WeldRow[2], WeldRow[4], WeldRow[5]>>
    /\ Len(weldSymbols) = 3 /\ Len(dResult) = 1

-----------------------------------------------------------------------------
(* Row clustering                                                          *)

\* the candidate fragments of the current call: those below the title and
\* not left of the table
CandidateFragments == FilterEntities(textEntities, tableTitle)

\* the row keys of rowsDict under which fragment e is held
RowsHolding(d, e) == {k \in DOMAIN d : \E n \in 1..Len(d[k]) : d[k][n] = e}

\* for each candidate the rows of rowsDict it was placed in
RowsOfCandidates ==
    LET cf == CandidateFragments
        d == RowsDict(cf)
    IN  [i \in 1..Len(cf) |-> RowsHolding(d, cf[i])]

\* the Y of each candidate, in hundredths
YOfCandidates ==
    LET cf == CandidateFragments IN [i \in 1..Len(cf) |-> cf[i].Y]

\* row holds the texts of cells by ascending X, cells of equal X in either
\* order
TextsByAscendingX(row, cells) ==
    /\ Len(row) = Len(cells)
    /\ \A n \in 1..Len(cells) :
          \E q \in 1..Len(row) :
            /\ row[q] = cells[n].Content
            /\ Cardinality({m \in 1..Len(cells) : cells[m].X < cells[n].X}) < q
            /\ q <= Cardinality({m \in 1..Len(cells) : cells[m].X <= cells[n].X})

\* tableRows has one row for each row key, the rows by descending key, the
\* texts of a row by ascending X
RowsByKeyCellsByX ==
    LET d == RowsDict(CandidateFragments)
        rows == TableRows(textEntities, tableTitle)
    IN  /\ Len(rows) = Cardinality(DOMAIN d)
        /\ \A i \in 1..Len(rows) :
              \E k \in DOMAIN d :
                /\ Cardinality({k2 \in DOMAIN d : k2 > k}) = i - 1
                /\ TextsByAscendingX(rows[i], d[k])

\* extractTable has built the rows of a table whose title it found
RowsBuilt == pc = "returned" /\ TitleIndex(textEntities, tableTitle) # 0

\* C25 (as claimed): any two candidate fragments whose Y differ by less than
\* 0.05 are placed in the same row, and the rows are output by descending
\* row key with the cells of a row by ascending X.
C25_WithinFiveHundredthsSameRow ==
    RowsBuilt =>
        LET placed == RowsOfCandidates
            y == YOfCandidates
        IN  /\ \A i \in DOMAIN y : \A j \in DOMAIN y :
                  AbsInt(y[i] - y[j]) < 5 => placed[i] \cap placed[j] # {}
            /\ RowsByKeyCellsByX

\* the multiple of 0.1 nearest to y, the half-way value going away from
\* zero, in tenths
NearestTenth(y) ==
    LET a == AbsInt(y)
        t == CHOOSE u \in (a \div 10)..(a \div 10 + 1) : 10 * u - 5 <= a /\ a < 10 * u + 5
    IN  IF y < 0 THEN 0 - t ELSE t

\* C25 (amended): two candidate fragments are placed in the same row exactly
\* when their Y round to the same multiple of 0.1, so two fragments of one
\* row differ in Y by less than 0.1; the rows are output by descending row
\* key with the cells of a row by ascending X.
C25_SameTenthSameRow ==
    RowsBuilt =>
        LET placed == RowsOfCandidates
            y == YOfCandidates
        IN  /\ \A i \in DOMAIN y : \A j \in DOMAIN y :
                  /\ placed[i] \cap placed[j] # {} <=> NearestTenth(y[i]) = NearestTenth(y[j])
                  /\ placed[i] \cap placed[j] # {} => AbsInt(y[i] - y[j]) < 10
            /\ RowsByKeyCellsByX

\* rows were built from two fragments 0.02 apart in Y that are in two rows,
\* and from two fragments 0.08 apart that are in one row
C25_Witness ==
    /\ RowsBuilt
    /\ LET placed == RowsOfCandidates
           y == YOfCandidates
       IN  /\ \E i, j \in DOMAIN y :
                 AbsInt(y[i] - y[j]) = 2 /\ placed[i] \cap placed[j] = {}
           /\ \E i, j \in DOMAIN y :
                 AbsInt(y[i] - y[j]) = 8 /\ placed[i] \cap placed[j] # {}

====
